---- MODULE Spec2Model ----
(***************************************************************************)
(* Dragonfly2 client daemon: the storage manager, its GC engine and its     *)
(* reload (client/daemon/storage/storage_manager.go, held as               *)
(* src/unnamed/part_004), the tasks of the peer-task manager               *)
(* (src/client/daemon/peer/peertask_file.go) with their conductors, and    *)
(* the piece manager's DownloadPiece.                                      *)
(*                                                                         *)
(* Time is an integer clock `now`; a store's lastAccess is the value of    *)
(* the clock at its last touch.  A store is an object with an identity:    *)
(* its id is its position in `stores`, so that two stores registered under *)
(* the same (TaskID, PeerID) key one after the other are told apart.       *)
(*                                                                         *)
(* The manager's operations proceed in steps.  Under Spec the operations   *)
(* are serialised (an operation starts only when no other is in progress): *)
(* the behaviours are the sequences of operations.  Under SpecConc the     *)
(* steps of RegisterTask, TryGC, CleanUp and the other operations          *)
(* interleave freely, under SpecRegister those of RegisterTask alone.      *)
(* SpecReload is ReloadPersistentTask over every content of the data root, *)
(* SpecPeer the requests and conductors of the peer-task manager,          *)
(* SpecPiece the concurrent DownloadPiece calls for the pieces of a task.  *)
(* An I/O error of the environment (a file that cannot be created, a       *)
(* Reclaim that fails) is not among the steps.                             *)
(***************************************************************************)
EXTENDS Integers, Sequences, FiniteSets, TLC

\* ------------------------------------------------------------- bounds
MaxStores == 2      \* stores created in one behaviour
MaxTime == 2        \* the clock runs 0..MaxTime

TaskIDs == {"t1", "t2"}
PeerIDs == {"p1", "p2"}
Callers == {1, 2}               \* goroutines calling RegisterTask
\* storeOption: a byte quota with the disk-usage check off, and the reverse
StorageOptions == {[DiskGCThreshold |-> 2, DiskGCThresholdPercent |-> 0],
                   [DiskGCThreshold |-> 0, DiskGCThresholdPercent |-> 2]}
\* the same, and a byte quota together with the disk-usage check
QuotaOptions == StorageOptions \cup {[DiskGCThreshold |-> 2, DiskGCThresholdPercent |-> 2]}
UsedPercents == {1, 2, 3}       \* what disk.Usage reports

\* ------------------------------------------------------------- program values
\* storeOption.TaskExpireTime, in ticks of the clock
TaskExpireTime == 1
\* gcInterval (time.Minute), in ticks of the clock
gcInterval == 1
\* usage.Total of the data path's disk
DiskTotal == 2

\* PeerTaskMetadata: the key of the task map
PeerTaskMetadata(peerID, taskID) == [TaskID |-> taskID, PeerID |-> peerID]
\* the keys requests are made for: two peers of task t1, one of task t2
Keys == {PeerTaskMetadata("p1", "t1"), PeerTaskMetadata("p2", "t1"), PeerTaskMetadata("p1", "t2")}
\* a TaskID names one content, so one ContentLength (RegisterTaskRequest.ContentLength)
ContentLengthOf(taskID) == IF taskID = "t1" THEN 1 ELSE 2

VARIABLES
    serial,                 \* TRUE: operations run one at a time
    now,                    \* the clock
    stores,                 \* every localTaskStore created so far, by id
    tasks,                  \* storageManager.tasks: key -> store id, 0 when absent
    indexTask2PeerTask,     \* TaskID -> sequence of store ids
    markedReclaimTasks,     \* the pending list saved by the previous TryGC pass
    files,                  \* the keys whose <TaskID>/<PeerID> directory holds files
    mutex,                  \* storageManager.Mutex: 0 free, else the caller holding it
    reg,                    \* per caller: its RegisterTask call
    gc,                     \* the GC goroutine: TryGC or forceGC in progress
    last,                   \* the operation that returned last, with its result
    DiskGCThreshold,        \* storeOption.DiskGCThreshold
    DiskGCThresholdPercent  \* storeOption.DiskGCThresholdPercent

storageVars == <<serial, now, stores, tasks, indexTask2PeerTask, markedReclaimTasks,
                 files, mutex, reg, gc, last, DiskGCThreshold, DiskGCThresholdPercent>>

\* the data root as ReloadPersistentTask finds it, and the reload's progress
VARIABLES
    disk,                   \* per <TaskID>/<PeerID> directory: what it holds
    taskDirs,               \* the <TaskID> directories that exist
    rl                      \* ReloadPersistentTask: its position and its locals

reloadVars == <<disk, taskDirs, rl>>

\* the peer task manager
VARIABLES
    enablePrefetch,         \* peerTaskManager.enablePrefetch
    conductors,             \* every peerTaskConductor created so far, by id
    runningPeerTasks,       \* the live conductor map: TaskID -> conductor id, 0 when absent
    reusable,               \* the TaskIDs the storage manager has a completed store for
    requests                \* per request: its task (file, stream or seed)

peerVars == <<enablePrefetch, conductors, runningPeerTasks, reusable, requests>>

\* the piece manager, for the pieces of one task
VARIABLES
    pieces,                 \* the task store's piece metadata, by PieceNum
    guard,                  \* the per-piece guard: 0 free, else the worker holding it
    workers,                \* per worker: its DownloadPiece call
    published,              \* the PieceNums given to PublishPieceInfo, in order
    pieceResults,           \* the PieceResults given to ReportPieceResult
    fetched                 \* per PieceNum: the fetches that ended in a verified write

pieceVars == <<pieces, guard, workers, published, pieceResults, fetched>>

\* the piece manager's DownloadSource, for one source and one request
VARIABLES
    src,                    \* the source's body and headers, the request, computePieceSize
    ds                      \* DownloadSource: its position, the peer task and its store

sourceVars == <<src, ds>>

\* one peer task conductor, its piece broker and the file tasks that subscribed
VARIABLES
    pt,                     \* the peerTaskConductor
    broker,                 \* the pieceBroker
    ft                      \* the file tasks, by subscriber

conductorVars == <<pt, broker, ft>>

vars == <<storageVars, reloadVars, peerVars, pieceVars, sourceVars, conductorVars>>

\* ------------------------------------------------------------- helpers
StoreIDs == 1..Len(stores)
KeyOf(t) == PeerTaskMetadata(t.PeerID, t.TaskID)

Max(a, b) == IF a > b THEN a ELSE b

\* permutations of a finite set, as sequences: the orders sync.Map.Range may visit in
Perms(S) == {f \in [1..Cardinality(S) -> S] : \A i, j \in DOMAIN f : f[i] = f[j] => i = j}

Count(seq, x) == Cardinality({i \in DOMAIN seq : seq[i] = x})

\* localTaskStore.touch: lastAccess := time.Now()
touch(t) == [t EXCEPT !.lastAccess = now]

\* localTaskStore.CanReclaim: the last access lies more than TaskExpireTime back
CanReclaim(t) == now - t.lastAccess > TaskExpireTime

\* localTaskStore.MarkReclaim
MarkReclaim(t) == [t EXCEPT !.reclaimMarked = TRUE]

\* LoadTask answering with the last store that was created for the key, deleted or not
LoadStale(key) ==
    IF \E id \in StoreIDs : KeyOf(stores[id]) = key
    THEN CHOOSE id \in StoreIDs :
             /\ KeyOf(stores[id]) = key
             /\ \A other \in StoreIDs : KeyOf(stores[other]) = key => other <= id
    ELSE 0

\* storageManager.LoadTask: the store id under key, 0 when not found
LoadTask(key) == tasks[key]

Quiescent == gc.pc = "idle" /\ \A p \in Callers : reg[p].pc = "idle"
MayStart == serial => Quiescent

IdleGC == [pc |-> "idle", markedTasks |-> <<>>, i |-> 0, cur |-> 0,
           newly |-> {}, scanned |-> {}, visited |-> {}]
IdleCall == [pc |-> "idle", key |-> PeerTaskMetadata("", ""), id |-> 0]
NoOp == [op |-> "none", key |-> PeerTaskMetadata("", ""), ret |-> 0]

\* ------------------------------------------------------------- Init
\* no threshold set: neither the quota phase nor the disk-usage check ever runs
NoThresholds == {[DiskGCThreshold |-> 0, DiskGCThresholdPercent |-> 0]}

InitStorage(s, options) ==
    /\ serial = s
    /\ now = 0
    /\ stores = <<>>
    /\ tasks = [k \in Keys |-> 0]
    /\ indexTask2PeerTask = [t \in TaskIDs |-> <<>>]
    /\ markedReclaimTasks = <<>>
    /\ mutex = 0
    /\ reg = [p \in Callers |-> IdleCall]
    /\ gc = IdleGC
    /\ last = NoOp
    /\ \E opt \in options :
          /\ DiskGCThreshold = opt.DiskGCThreshold
          /\ DiskGCThresholdPercent = opt.DiskGCThresholdPercent

\* a <TaskID>/<PeerID> directory that does not exist
NoDir == [dir |-> FALSE, metadata |-> "none", data |-> "none", dest |-> FALSE]

\* ReloadPersistentTask has returned
ReloadOver == [pc |-> "done", dirs |-> <<>>, taskID |-> "", peerDirs |-> <<>>,
               loadErrs |-> <<>>, loadErrDirs |-> <<>>, j |-> 0, err |-> FALSE]

\* NewStorageManager has returned the manager
ManagerReady == [ReloadOver EXCEPT !.pc = "ready"]

\* the manager was constructed on an empty data root
EmptyDataPath ==
    /\ files = {}
    /\ disk = [d \in Keys |-> NoDir]
    /\ taskDirs = {}
    /\ rl = ManagerReady

\* a peer task manager nobody has asked anything of
NoPeerTasks ==
    /\ enablePrefetch = FALSE
    /\ conductors = <<>>
    /\ runningPeerTasks = <<>>
    /\ reusable = {}
    /\ requests = <<>>

\* a piece manager nobody has asked anything of
NoPieces ==
    /\ pieces = <<>>
    /\ guard = <<>>
    /\ workers = <<>>
    /\ published = <<>>
    /\ pieceResults = {}
    /\ fetched = <<>>

\* no DownloadSource call
NoSource ==
    /\ src = <<>>
    /\ ds = <<>>

\* no conductor
NoConductor ==
    /\ pt = <<>>
    /\ broker = <<>>
    /\ ft = <<>>

Idle == NoPeerTasks /\ NoPieces /\ NoSource /\ NoConductor

Init == InitStorage(TRUE, StorageOptions) /\ EmptyDataPath /\ Idle
InitConc == InitStorage(FALSE, StorageOptions) /\ EmptyDataPath /\ Idle

\* ------------------------------------------------------------- the clock
Tick ==
    /\ MayStart
    /\ now < MaxTime
    /\ now' = now + 1
    /\ last' = NoOp
    /\ UNCHANGED <<sourceVars, conductorVars, serial, stores, tasks, indexTask2PeerTask, markedReclaimTasks, files,
                   mutex, reg, gc, DiskGCThreshold, DiskGCThresholdPercent,
                   reloadVars, peerVars, pieceVars>>

\* ------------------------------------------------------------- RegisterTask
\* lines 196-203: the lock-free first LoadTask
RegisterTaskBegin(p, key) ==
    /\ MayStart
    /\ reg[p].pc = "idle"
    /\ Len(stores) + Cardinality({q \in Callers : reg[q].pc # "idle"}) < MaxStores
    /\ IF LoadTask(key) # 0
       THEN /\ reg' = [reg EXCEPT ![p] = IdleCall]
            /\ last' = [op |-> "RegisterTask", key |-> key, ret |-> LoadTask(key)]
       ELSE /\ reg' = [reg EXCEPT ![p] = [pc |-> "lock", key |-> key, id |-> 0]]
            /\ last' = NoOp
    /\ UNCHANGED <<sourceVars, conductorVars, serial, now, stores, tasks, indexTask2PeerTask, markedReclaimTasks, files,
                   mutex, gc, DiskGCThreshold, DiskGCThresholdPercent,
                   reloadVars, peerVars, pieceVars>>

NoDoubleCheck(key) == 0

\* line 208: the second LoadTask, made with the mutex held
DoubleCheck(key) == LoadTask(key)

\* CreateTask, lines 303-388: the new localTaskStore, touched, its files created
NewStore(key) ==
    [TaskID |-> key.TaskID, PeerID |-> key.PeerID, ContentLength |-> ContentLengthOf(key.TaskID),
     lastAccess |-> now, Done |-> FALSE, invalid |-> FALSE, reclaimMarked |-> FALSE,
     removed |-> FALSE, reclaimed |-> FALSE]

\* lines 206-216 and 303-388: Lock, the double check, and CreateTask up to tasks.Store
RegisterTaskLocked(p) ==
    /\ reg[p].pc = "lock"
    /\ mutex = 0
    /\ LET key == reg[p].key IN
       IF DoubleCheck(key) # 0
       THEN /\ reg' = [reg EXCEPT ![p] = IdleCall]
            /\ last' = [op |-> "RegisterTask", key |-> key, ret |-> DoubleCheck(key)]
            /\ UNCHANGED <<stores, tasks, files, mutex>>
       ELSE /\ stores' = Append(stores, NewStore(key))
            /\ tasks' = [tasks EXCEPT ![key] = Len(stores) + 1]
            /\ files' = files \cup {key}
            /\ mutex' = p
            /\ reg' = [reg EXCEPT ![p].pc = "index", ![p].id = Len(stores) + 1]
            /\ last' = NoOp
    /\ UNCHANGED <<sourceVars, conductorVars, serial, now, indexTask2PeerTask, markedReclaimTasks, gc,
                   DiskGCThreshold, DiskGCThresholdPercent,
                   reloadVars, peerVars, pieceVars>>

\* CreateTask, lines 390-398: the index append, then the deferred Unlock and the return
RegisterTaskIndex(p) ==
    /\ reg[p].pc = "index"
    /\ indexTask2PeerTask' = [indexTask2PeerTask EXCEPT ![reg[p].key.TaskID] =
                                 Append(@, reg[p].id)]
    /\ mutex' = 0
    /\ reg' = [reg EXCEPT ![p] = IdleCall]
    /\ last' = [op |-> "RegisterTask", key |-> reg[p].key, ret |-> reg[p].id]
    /\ UNCHANGED <<sourceVars, conductorVars, serial, now, stores, tasks, markedReclaimTasks, files, gc,
                   DiskGCThreshold, DiskGCThresholdPercent,
                   reloadVars, peerVars, pieceVars>>

\* ------------------------------------------------------------- operations through LoadTask
\* What the manager's operation does once LoadTask found the store: the store's own
\* method touches it; UpdateTask records the task as Done; ValidateDigest marks the
\* store invalid on a digest mismatch.
Delegate(op, t, mismatch) ==
    CASE op = "UpdateTask" -> [touch(t) EXCEPT !.Done = TRUE]
      [] op = "ValidateDigest" -> [touch(t) EXCEPT !.invalid = mismatch \/ @]
      [] OTHER -> touch(t)

\* lines 219-301, 453-475: WritePiece, ReadPiece, ReadAllPieces, Store, GetPieces,
\* UpdateTask, ValidateDigest, IsInvalid: LoadTask, ErrTaskNotFound when it finds nothing
TaskOps == {"WritePiece", "UpdateTask", "ValidateDigest"}
TaskOp(op, key, mismatch) ==
    /\ MayStart
    /\ IF LoadTask(key) = 0
       THEN /\ last' = [op |-> op, key |-> key, ret |-> -1]      \* ErrTaskNotFound
            /\ UNCHANGED stores
       ELSE /\ stores' = [stores EXCEPT ![LoadTask(key)] = Delegate(op, @, mismatch)]
            /\ last' = [op |-> op, key |-> key, ret |-> LoadTask(key)]
    /\ UNCHANGED <<sourceVars, conductorVars, serial, now, tasks, indexTask2PeerTask, markedReclaimTasks, files,
                   mutex, reg, gc, DiskGCThreshold, DiskGCThresholdPercent,
                   reloadVars, peerVars, pieceVars>>

\* ------------------------------------------------------------- FindCompletedTask
NeverSkipMarked(t) == FALSE

\* line 415: a store already marked for reclaim is skipped
SkipMarked(t) == t.reclaimMarked

\* lines 408-431: the loop over the index entry; the result is the store returned
\* (0 for nil) and the stores as the loop's touches left them
RECURSIVE FindLoop(_, _, _)
FindLoop(ts, i, st) ==
    IF i > Len(ts) THEN [ret |-> 0, stores |-> st]
    ELSE LET id == ts[i] IN
         IF st[id].invalid THEN FindLoop(ts, i + 1, st)
         ELSE LET st2 == [st EXCEPT ![id] = touch(@)] IN
              IF SkipMarked(st2[id]) THEN FindLoop(ts, i + 1, st2)
              ELSE IF ~st2[id].Done THEN FindLoop(ts, i + 1, st2)
              ELSE [ret |-> id, stores |-> st2]

\* lines 401-432, the whole call: it runs with the index read-locked
FindCompletedTask(taskID) ==
    /\ MayStart
    /\ LET r == FindLoop(indexTask2PeerTask[taskID], 1, stores) IN
       /\ stores' = r.stores
       /\ last' = [op |-> "FindCompletedTask", key |-> PeerTaskMetadata("", taskID),
                   ret |-> r.ret]
    /\ UNCHANGED <<sourceVars, conductorVars, serial, now, tasks, indexTask2PeerTask, markedReclaimTasks, files,
                   mutex, reg, gc, DiskGCThreshold, DiskGCThresholdPercent,
                   reloadVars, peerVars, pieceVars>>

\* ------------------------------------------------------------- cleanIndex
cleanIndexKeepsAll(taskID, peerID) == indexTask2PeerTask

\* lines 434-451: the index entry of taskID without the stores of peerID
cleanIndex(taskID, peerID) ==
    [indexTask2PeerTask EXCEPT ![taskID] =
        SelectSeq(@, LAMBDA id : stores[id].PeerID # peerID)]

\* ------------------------------------------------------------- TryGC
ScanMarksAll(t) == TRUE

\* line 608: whether the scan marks the store
ScanMarks(t) == CanReclaim(t)

\* lines 607-618: the first Range. acc: the stores, markedTasks, totalNotMarkedSize and
\* the stores this pass marked that were not marked before
RECURSIVE ScanRange(_, _, _)
ScanRange(order, i, acc) ==
    IF i > Len(order) THEN acc
    ELSE LET key == order[i]
             id == tasks[key]
             t == acc.stores[id]
         IN IF ScanMarks(t)
            THEN ScanRange(order, i + 1,
                     [acc EXCEPT !.stores[id] = MarkReclaim(t),
                                 !.markedTasks = Append(@, key),
                                 !.newly = IF t.reclaimMarked THEN @ ELSE @ \cup {id}])
            ELSE ScanRange(order, i + 1, [acc EXCEPT !.total = @ + t.ContentLength])

\* lines 720-738: diskUsageExceed; used is disk.Usage's UsedPercent, -1 when it failed
diskUsageExceed(used) ==
    IF DiskGCThresholdPercent <= 0 THEN [exceed |-> FALSE, bytes |-> 0]
    ELSE IF used < 0 THEN [exceed |-> FALSE, bytes |-> 0]
    ELSE IF used < DiskGCThresholdPercent THEN [exceed |-> FALSE, bytes |-> 0]
    ELSE [exceed |-> TRUE, bytes |-> (used - DiskGCThresholdPercent) * DiskTotal]

\* The quota phase taking every unmarked store of the map as a candidate
EveryUnmarked(order, st) ==
    SelectSeq([i \in DOMAIN order |-> tasks[order[i]]],
              LAMBDA id : ~st[id].reclaimMarked)

\* lines 633-646: the second Range, the stores the quota phase may mark
QuotaCandidates(order, st) ==
    SelectSeq([i \in DOMAIN order |-> tasks[order[i]]],
              LAMBDA id : /\ ~st[id].reclaimMarked
                          /\ ~(~st[id].Done /\ now - st[id].lastAccess < gcInterval))

\* lines 648-650: sort.SliceStable by lastAccess, as an insertion sort
RECURSIVE InsertByAccess(_, _, _)
InsertByAccess(sorted, id, st) ==
    IF sorted = <<>> THEN <<id>>
    ELSE IF st[id].lastAccess < st[sorted[Len(sorted)]].lastAccess
         THEN Append(InsertByAccess(SubSeq(sorted, 1, Len(sorted) - 1), id, st),
                     sorted[Len(sorted)])
         ELSE Append(sorted, id)

RECURSIVE SortByAccess(_, _, _)
SortByAccess(seq, i, st) ==
    IF i = 0 THEN <<>>
    ELSE InsertByAccess(SortByAccess(seq, i - 1, st), seq[i], st)

\* The quota phase marking the oldest candidate without appending it to markedTasks
QuotaMarkForgets(cands, i, acc) ==
    IF cands = <<>> THEN acc
    ELSE [acc EXCEPT !.stores[cands[1]] = MarkReclaim(@), !.newly = @ \cup {cands[1]}]

\* lines 651-661: mark in order, stop once bytesExceed <= 0
RECURSIVE QuotaMark(_, _, _)
QuotaMark(cands, i, acc) ==
    IF i > Len(cands) THEN acc
    ELSE LET id == cands[i]
             t == acc.stores[id]
             acc2 == [acc EXCEPT !.stores[id] = MarkReclaim(t),
                                 !.markedTasks = Append(@, PeerTaskMetadata(t.PeerID, t.TaskID)),
                                 !.bytesExceed = @ - t.ContentLength,
                                 !.newly = @ \cup {id}]
         IN IF acc2.bytesExceed <= 0 THEN acc2 ELSE QuotaMark(cands, i + 1, acc2)

\* lines 605-665: the marking half of a pass. order1, order2: the orders in which the
\* two Ranges visit the map; used: the disk usage read
MarkPhase(order1, order2, used) ==
    LET scan == ScanRange(order1, 1, [stores |-> stores, markedTasks |-> <<>>,
                                      total |-> 0, newly |-> {}])
        quotaBytesExceed == scan.total - DiskGCThreshold
        quotaExceed == DiskGCThreshold > 0 /\ quotaBytesExceed > 0
        usage == diskUsageExceed(used)
    IN IF quotaExceed \/ usage.exceed
       THEN LET bytesExceed == Max(quotaBytesExceed, usage.bytes)
                cands == QuotaCandidates(order2, scan.stores)
                sorted == SortByAccess(cands, Len(cands), scan.stores)
                q == QuotaMark(sorted, 1, [stores |-> scan.stores,
                                           markedTasks |-> scan.markedTasks,
                                           bytesExceed |-> bytesExceed,
                                           newly |-> scan.newly])
            IN [stores |-> q.stores, markedTasks |-> q.markedTasks, newly |-> q.newly,
                scanned |-> scan.newly, quota |-> TRUE, bytesExceed |-> bytesExceed]
       ELSE [stores |-> scan.stores, markedTasks |-> scan.markedTasks, newly |-> scan.newly,
             scanned |-> scan.newly, quota |-> FALSE, bytesExceed |-> 0]

KeysInMap == {k \in Keys : tasks[k] # 0}

\* lines 604-665: a pass starts and marks
TryGCMark ==
    /\ MayStart
    /\ gc.pc = "idle"
    /\ \E order2 \in Perms(KeysInMap), used \in UsedPercents \cup {-1} :
          \* the first Range only appends to markedTasks: its order is the order of the
          \* entries of the pending list and nothing else, and is taken to be one order
          LET order1 == CHOOSE o \in Perms(KeysInMap) : TRUE IN
          LET m == MarkPhase(order1, order2, used) IN
          /\ stores' = m.stores
          /\ gc' = [pc |-> "reclaim", markedTasks |-> m.markedTasks, i |-> 1, cur |-> 0,
                    newly |-> m.newly, scanned |-> m.scanned, visited |-> {}]
          \* with the result, the UsedPercent that diskUsageExceed read, if it read one
          /\ last' = [op |-> "TryGCMark", key |-> PeerTaskMetadata("", ""),
                      ret |-> IF m.quota THEN m.bytesExceed ELSE -1,
                      used |-> IF DiskGCThresholdPercent <= 0 THEN -1 ELSE used]
    /\ UNCHANGED <<sourceVars, conductorVars, serial, now, tasks, indexTask2PeerTask, markedReclaimTasks, files,
                   mutex, reg, DiskGCThreshold, DiskGCThresholdPercent,
                   reloadVars, peerVars, pieceVars>>

\* lines 667-677: the next pending key; a key no longer in the map is passed over,
\* the store of any other is deleted from the map
TryGCDelete ==
    /\ gc.pc = "reclaim"
    /\ gc.i <= Len(markedReclaimTasks)
    /\ LET key == markedReclaimTasks[gc.i] IN
       IF tasks[key] = 0
       THEN /\ gc' = [gc EXCEPT !.i = @ + 1]
            /\ UNCHANGED <<tasks, stores>>
       ELSE /\ tasks' = [tasks EXCEPT ![key] = 0]
            /\ stores' = [stores EXCEPT ![tasks[key]].removed = TRUE]
            /\ gc' = [gc EXCEPT !.pc = "clean", !.cur = tasks[key]]
    /\ last' = NoOp
    /\ UNCHANGED <<sourceVars, conductorVars, serial, now, indexTask2PeerTask, markedReclaimTasks, files,
                   mutex, reg, DiskGCThreshold, DiskGCThresholdPercent,
                   reloadVars, peerVars, pieceVars>>

\* line 678
TryGCCleanIndex ==
    /\ gc.pc = "clean"
    /\ indexTask2PeerTask' = cleanIndex(stores[gc.cur].TaskID, stores[gc.cur].PeerID)
    /\ gc' = [gc EXCEPT !.pc = "files"]
    /\ last' = NoOp
    /\ UNCHANGED <<sourceVars, conductorVars, serial, now, stores, tasks, markedReclaimTasks, files,
                   mutex, reg, DiskGCThreshold, DiskGCThresholdPercent,
                   reloadVars, peerVars, pieceVars>>

\* the first entry equal to key taken out of markedTasks (lines 688-693)
RECURSIVE RemoveFirst(_, _)
RemoveFirst(seq, key) ==
    IF seq = <<>> THEN <<>>
    ELSE IF Head(seq) = key THEN Tail(seq)
    ELSE <<Head(seq)>> \o RemoveFirst(Tail(seq), key)

\* localTaskStore.Reclaim: the data file, the metadata and the directory are removed.
\* Nothing reads the last access of a reclaimed store any more: it is put back to 0.
Reclaim(t) == [t EXCEPT !.reclaimed = TRUE, !.lastAccess = 0]

\* lines 679-694: Reclaim, then the key is taken out of this pass's markedTasks
TryGCReclaim ==
    /\ gc.pc = "files"
    /\ stores' = [stores EXCEPT ![gc.cur] = Reclaim(@)]
    /\ files' = files \ {markedReclaimTasks[gc.i]}
    /\ gc' = [gc EXCEPT !.pc = "reclaim", !.i = @ + 1, !.cur = 0,
                        !.markedTasks = RemoveFirst(@, markedReclaimTasks[gc.i])]
    /\ last' = [op |-> "Reclaim", key |-> markedReclaimTasks[gc.i], ret |-> gc.cur]
    /\ UNCHANGED <<sourceVars, conductorVars, serial, now, tasks, indexTask2PeerTask, markedReclaimTasks,
                   mutex, reg, DiskGCThreshold, DiskGCThresholdPercent,
                   reloadVars, peerVars, pieceVars>>

\* lines 696-698: the pass's markedTasks become the pending list
TryGCEnd ==
    /\ gc.pc = "reclaim"
    /\ gc.i > Len(markedReclaimTasks)
    /\ markedReclaimTasks' = gc.markedTasks
    /\ gc' = IdleGC
    /\ last' = [op |-> "TryGC", key |-> PeerTaskMetadata("", ""), ret |-> 0]
    /\ UNCHANGED <<sourceVars, conductorVars, serial, now, stores, tasks, indexTask2PeerTask, files,
                   mutex, reg, DiskGCThreshold, DiskGCThresholdPercent,
                   reloadVars, peerVars, pieceVars>>

\* ------------------------------------------------------------- CleanUp / forceGC
\* lines 701-706: CleanUp calls forceGC, which ranges over the task map
ForceGCBegin ==
    /\ MayStart
    /\ gc.pc = "idle"
    /\ gc' = [IdleGC EXCEPT !.pc = "force"]
    /\ last' = NoOp
    /\ UNCHANGED <<sourceVars, conductorVars, serial, now, stores, tasks, indexTask2PeerTask, markedReclaimTasks, files,
                   mutex, reg, DiskGCThreshold, DiskGCThresholdPercent,
                   reloadVars, peerVars, pieceVars>>

\* lines 707-708: the Range reaches a key it has not visited and deletes it from the map
ForceGCDelete(key) ==
    /\ gc.pc = "force"
    /\ key \in KeysInMap \ gc.visited
    /\ tasks' = [tasks EXCEPT ![key] = 0]
    /\ stores' = [stores EXCEPT ![tasks[key]].removed = TRUE]
    /\ gc' = [gc EXCEPT !.pc = "fclean", !.cur = tasks[key], !.visited = @ \cup {key}]
    /\ last' = NoOp
    /\ UNCHANGED <<sourceVars, conductorVars, serial, now, indexTask2PeerTask, markedReclaimTasks, files,
                   mutex, reg, DiskGCThreshold, DiskGCThresholdPercent,
                   reloadVars, peerVars, pieceVars>>

\* line 709; the key is the map's key
ForceGCCleanIndex ==
    /\ gc.pc = "fclean"
    /\ indexTask2PeerTask' = cleanIndex(stores[gc.cur].TaskID, stores[gc.cur].PeerID)
    /\ gc' = [gc EXCEPT !.pc = "ffiles"]
    /\ last' = NoOp
    /\ UNCHANGED <<sourceVars, conductorVars, serial, now, stores, tasks, markedReclaimTasks, files,
                   mutex, reg, DiskGCThreshold, DiskGCThresholdPercent,
                   reloadVars, peerVars, pieceVars>>

\* lines 710-714: MarkReclaim, then Reclaim
ForceGCReclaim ==
    /\ gc.pc = "ffiles"
    /\ stores' = [stores EXCEPT ![gc.cur] = Reclaim(MarkReclaim(@))]
    /\ files' = files \ {KeyOf(stores[gc.cur])}
    /\ gc' = [gc EXCEPT !.pc = "force", !.cur = 0]
    /\ last' = [op |-> "Reclaim", key |-> KeyOf(stores[gc.cur]), ret |-> gc.cur]
    /\ UNCHANGED <<sourceVars, conductorVars, serial, now, tasks, indexTask2PeerTask, markedReclaimTasks,
                   mutex, reg, DiskGCThreshold, DiskGCThresholdPercent,
                   reloadVars, peerVars, pieceVars>>

ForceGCRangeStopsEarly == gc.visited # {}

\* lines 706, 715-716: the Range goes on (return true) until it has visited every key
ForceGCRangeOver == KeysInMap \subseteq gc.visited

\* lines 716-718, 702: the Range is over, CleanUp returns
ForceGCEnd ==
    /\ gc.pc = "force"
    /\ ForceGCRangeOver
    /\ gc' = IdleGC
    /\ last' = [op |-> "CleanUp", key |-> PeerTaskMetadata("", ""), ret |-> 0]
    /\ UNCHANGED <<sourceVars, conductorVars, serial, now, stores, tasks, indexTask2PeerTask, markedReclaimTasks, files,
                   mutex, reg, DiskGCThreshold, DiskGCThresholdPercent,
                   reloadVars, peerVars, pieceVars>>

Next ==
    \/ Tick
    \/ \E p \in Callers, key \in Keys : RegisterTaskBegin(p, key)
    \/ \E p \in Callers : RegisterTaskLocked(p)
    \/ \E p \in Callers : RegisterTaskIndex(p)
    \/ \E op \in TaskOps, key \in Keys : TaskOp(op, key, FALSE)
    \/ \E key \in Keys : TaskOp("ValidateDigest", key, TRUE)
    \/ \E taskID \in TaskIDs : FindCompletedTask(taskID)
    \/ TryGCMark
    \/ TryGCDelete
    \/ TryGCCleanIndex
    \/ TryGCReclaim
    \/ TryGCEnd
    \/ ForceGCBegin
    \/ \E key \in Keys : ForceGCDelete(key)
    \/ ForceGCCleanIndex
    \/ ForceGCReclaim
    \/ ForceGCEnd

\* The interleaved steps of RegisterTask, UpdateTask, FindCompletedTask, TryGC and
\* CleanUp, all within one tick of the clock
NextConc ==
    \/ \E p \in Callers, key \in Keys : RegisterTaskBegin(p, key)
    \/ \E p \in Callers : RegisterTaskLocked(p)
    \/ \E p \in Callers : RegisterTaskIndex(p)
    \/ \E key \in Keys : TaskOp("UpdateTask", key, FALSE)
    \/ \E taskID \in TaskIDs : FindCompletedTask(taskID)
    \/ TryGCMark
    \/ TryGCDelete
    \/ TryGCCleanIndex
    \/ TryGCReclaim
    \/ TryGCEnd
    \/ ForceGCBegin
    \/ \E key \in Keys : ForceGCDelete(key)
    \/ ForceGCCleanIndex
    \/ ForceGCReclaim
    \/ ForceGCEnd

\* Concurrent RegisterTask calls, with the lookups, and no GC
NextRegister ==
    \/ \E p \in Callers, key \in Keys : RegisterTaskBegin(p, key)
    \/ \E p \in Callers : RegisterTaskLocked(p)
    \/ \E p \in Callers : RegisterTaskIndex(p)
    \/ \E key \in Keys : TaskOp("UpdateTask", key, FALSE)
    \/ \E taskID \in TaskIDs : FindCompletedTask(taskID)

\* RegisterTask, UpdateTask and the passes of TryGC, one operation at a time, under
\* every storeOption of QuotaOptions
InitGC == InitStorage(TRUE, QuotaOptions) /\ EmptyDataPath /\ Idle

NextGC ==
    \/ Tick
    \/ \E p \in Callers, key \in Keys : RegisterTaskBegin(p, key)
    \/ \E p \in Callers : RegisterTaskLocked(p)
    \/ \E p \in Callers : RegisterTaskIndex(p)
    \/ \E key \in Keys : TaskOp("UpdateTask", key, FALSE)
    \/ TryGCMark
    \/ TryGCDelete
    \/ TryGCCleanIndex
    \/ TryGCReclaim
    \/ TryGCEnd

SpecGC == InitGC /\ [][NextGC]_vars

\* The manager with a byte quota only (the disk-usage check off) and no store ever
\* expired: tasks are registered and completed, TryGC passes run with nothing in
\* between until one has reclaimed, then FindCompletedTask looks for what is left.
ByteQuotaOptions ==
    {[DiskGCThreshold |-> 1, DiskGCThresholdPercent |-> 0],
     [DiskGCThreshold |-> 2, DiskGCThresholdPercent |-> 0]}

NothingMarked == gc.pc = "idle" /\ \A id \in StoreIDs : ~stores[id].reclaimMarked
NothingReclaimed == \A id \in StoreIDs : ~stores[id].reclaimed

InitQuota == InitStorage(TRUE, ByteQuotaOptions) /\ EmptyDataPath /\ Idle

NextQuota ==
    \/ NothingMarked /\ now < TaskExpireTime /\ Tick
    \/ \E p \in Callers, key \in Keys : NothingMarked /\ RegisterTaskBegin(p, key)
    \/ \E p \in Callers : RegisterTaskLocked(p)
    \/ \E p \in Callers : RegisterTaskIndex(p)
    \/ \E key \in Keys : NothingMarked /\ TaskOp("UpdateTask", key, FALSE)
    \/ NothingReclaimed /\ TryGCMark
    \/ TryGCDelete
    \/ TryGCCleanIndex
    \/ TryGCReclaim
    \/ TryGCEnd
    \/ \E taskID \in TaskIDs : ~NothingReclaimed /\ FindCompletedTask(taskID)

SpecQuota == InitQuota /\ [][NextQuota]_vars

\* lines 219-301, 453-475: the eight operations of the manager that go through
\* LoadTask and hand the call to the store it found
StoreCalls ==
    {"WritePiece", "ReadPiece", "ReadAllPieces", "Store", "GetPieces", "UpdateTask",
     "ValidateDigest", "IsInvalid"}

\* The manager with both thresholds off: tasks are registered, every operation of
\* StoreCalls and FindCompletedTask are called on every key, registered or not, the
\* clock advances and TryGC passes mark, delete and reclaim what has expired.
InitCalls == InitStorage(TRUE, NoThresholds) /\ EmptyDataPath /\ Idle

NextCalls ==
    \/ Tick
    \/ \E p \in Callers, key \in Keys : RegisterTaskBegin(p, key)
    \/ \E p \in Callers : RegisterTaskLocked(p)
    \/ \E p \in Callers : RegisterTaskIndex(p)
    \/ \E op \in StoreCalls, key \in Keys : TaskOp(op, key, FALSE)
    \/ \E taskID \in TaskIDs : FindCompletedTask(taskID)
    \/ TryGCMark
    \/ TryGCDelete
    \/ TryGCCleanIndex
    \/ TryGCReclaim
    \/ TryGCEnd

SpecCalls == InitCalls /\ [][NextCalls]_vars

Spec == Init /\ [][Next]_vars
SpecConc == InitConc /\ [][NextConc]_vars
SpecRegister == InitConc /\ [][NextRegister]_vars


\* ------------------------------------------------------------- ReloadPersistentTask
\* What the data root may hold when the daemon starts after an unclean shutdown.
\* metadata: "none" (os.Open fails), "unreadable" (io.ReadAll fails), "corrupt"
\* (json.Unmarshal fails), "undone" and "done" (parseable, with the Done flag).
\* data: no data file, a regular file, a hard link to the destination's cache file, or
\* a symbolic link to it; dest: the destination's cache file exists.
Metadatas == {"none", "unreadable", "corrupt", "undone", "done"}
Datas == {"none", "file", "hardlink", "symlink"}
DirContents ==
    {NoDir} \cup
    {c \in [dir : {TRUE}, metadata : Metadatas, data : Datas, dest : BOOLEAN] :
        /\ c.data = "hardlink" => c.dest
        /\ c.data \in {"none", "file"} => ~c.dest}

\* os.ReadDir returns the entries sorted by name
TaskOrder == <<"t1", "t2">>
PeerOrder == <<"p1", "p2">>
ReadDir(names, order) == SelectSeq(order, LAMBDA x : x \in names)

PeerDirsOf(taskID) ==
    {p \in PeerIDs : PeerTaskMetadata(p, taskID) \in Keys /\ disk[PeerTaskMetadata(p, taskID)].dir}

InitReload ==
    /\ InitStorage(TRUE, NoThresholds)
    /\ disk \in [Keys -> DirContents]
    /\ files = {k \in Keys : disk[k].dir}
    /\ \E empty \in SUBSET TaskIDs :
          taskDirs = empty \cup {k.TaskID : k \in {d \in Keys : disk[d].dir}}
    /\ rl = [ReloadOver EXCEPT !.pc = "start"]
    /\ NoPeerTasks
    /\ NoPieces
    /\ NoSource
    /\ NoConductor

\* line 478: the task directories of the data root
ReloadReadDir ==
    /\ rl.pc = "start"
    /\ rl' = [rl EXCEPT !.pc = "tasks", !.dirs = ReadDir(taskDirs, TaskOrder)]
    /\ UNCHANGED <<sourceVars, conductorVars, storageVars, disk, taskDirs, peerVars, pieceVars>>

\* lines 489-508: the next task directory; an empty one is removed
ReloadTaskDir ==
    /\ rl.pc = "tasks"
    /\ rl.dirs # <<>>
    /\ LET taskID == Head(rl.dirs)
           peerDirs == ReadDir(PeerDirsOf(taskID), PeerOrder)
       IN IF peerDirs = <<>>
          THEN /\ taskDirs' = taskDirs \ {taskID}
               /\ rl' = [rl EXCEPT !.dirs = Tail(@)]
          ELSE /\ rl' = [rl EXCEPT !.pc = "peers", !.taskID = taskID, !.peerDirs = peerDirs]
               /\ UNCHANGED taskDirs
    /\ UNCHANGED <<sourceVars, conductorVars, storageVars, disk, peerVars, pieceVars>>

\* lines 512-519, 544: the store built for a directory whose metadata parsed
LoadedStore(key, metadata) == [NewStore(key) EXCEPT !.Done = (metadata = "done")]

EveryLoadFails(metadata) == TRUE

\* lines 521, 528-529, 537: os.Open, io.ReadAll or json.Unmarshal returns an error
LoadFails(metadata) == metadata \in {"none", "unreadable", "corrupt"}

\* lines 522, 530, 538: the error appended to loadErrs
LoadError(key, metadata) ==
    [key |-> key,
     stage |-> CASE metadata = "none" -> "open"
                 [] metadata = "unreadable" -> "read"
                 [] OTHER -> "parse"]

\* lines 509-558: the next peer directory of the task directory: it is put on
\* loadErrDirs when its metadata cannot be opened, read or parsed, and else it is
\* stored in the task map and appended to the index
ReloadPeerDir ==
    /\ rl.pc = "peers"
    /\ LET key == PeerTaskMetadata(Head(rl.peerDirs), rl.taskID)
           rest == Tail(rl.peerDirs)
           after == IF rest = <<>>
                    THEN [rl EXCEPT !.pc = "tasks", !.dirs = Tail(@), !.peerDirs = rest]
                    ELSE [rl EXCEPT !.peerDirs = rest]
       IN IF LoadFails(disk[key].metadata)
          THEN /\ rl' = [after EXCEPT !.loadErrs = Append(@, LoadError(key, disk[key].metadata)),
                                      !.loadErrDirs = Append(@, key)]
               /\ UNCHANGED <<stores, tasks, indexTask2PeerTask>>
          ELSE /\ stores' = Append(stores, LoadedStore(key, disk[key].metadata))
               /\ tasks' = [tasks EXCEPT ![key] = Len(stores) + 1]
               /\ indexTask2PeerTask' = [indexTask2PeerTask EXCEPT ![key.TaskID] =
                                            Append(@, Len(stores) + 1)]
               /\ rl' = after
    /\ UNCHANGED <<sourceVars, conductorVars, serial, now, markedReclaimTasks, files, mutex, reg, gc, last,
                   DiskGCThreshold, DiskGCThresholdPercent, disk, taskDirs,
                   peerVars, pieceVars>>

\* lines 562-591: the metadata is removed, the data file is removed and, when the data
\* file is a symbolic link, so is the file it points to; the directory is removed
RemoveLoadErrDir(c) ==
    [dir |-> FALSE, metadata |-> "none", data |-> "none",
     dest |-> IF c.data = "symlink" THEN FALSE ELSE c.dest]

\* lines 561-593: the next directory of loadErrDirs
ReloadRemoveDir ==
    /\ rl.pc = "tasks"
    /\ rl.dirs = <<>>
    /\ rl.j < Len(rl.loadErrDirs)
    /\ disk' = [disk EXCEPT ![rl.loadErrDirs[rl.j + 1]] = RemoveLoadErrDir(@)]
    /\ files' = files \ {rl.loadErrDirs[rl.j + 1]}
    /\ rl' = [rl EXCEPT !.j = @ + 1]
    /\ UNCHANGED <<sourceVars, conductorVars, serial, now, stores, tasks, indexTask2PeerTask, markedReclaimTasks,
                   mutex, reg, gc, last, DiskGCThreshold, DiskGCThresholdPercent,
                   taskDirs, peerVars, pieceVars>>

\* lines 594-601: the error when a directory failed to load, nil otherwise
ReloadReturn ==
    /\ rl.pc = "tasks"
    /\ rl.dirs = <<>>
    /\ rl.j = Len(rl.loadErrDirs)
    /\ rl' = [rl EXCEPT !.pc = "done", !.err = (Len(rl.loadErrs) > 0)]
    /\ UNCHANGED <<sourceVars, conductorVars, storageVars, disk, taskDirs, peerVars, pieceVars>>

\* lines 173-178: the error of the reload is logged, the manager is registered with
\* the GC and returned with a nil error
NewStorageManagerReturn ==
    /\ rl.pc = "done"
    /\ rl' = [rl EXCEPT !.pc = "ready"]
    /\ last' = [op |-> "NewStorageManager", key |-> PeerTaskMetadata("", ""), ret |-> 0]
    /\ UNCHANGED <<sourceVars, conductorVars, serial, now, stores, tasks, indexTask2PeerTask, markedReclaimTasks,
                   files, mutex, reg, gc, DiskGCThreshold, DiskGCThresholdPercent,
                   disk, taskDirs, peerVars, pieceVars>>

\* the manager is used once NewStorageManager has returned it
NextReload ==
    \/ ReloadReadDir
    \/ ReloadTaskDir
    \/ ReloadPeerDir
    \/ ReloadRemoveDir
    \/ ReloadReturn
    \/ NewStorageManagerReturn
    \/ \E p \in Callers, key \in Keys : rl.pc = "ready" /\ RegisterTaskBegin(p, key)
    \/ \E p \in Callers : RegisterTaskLocked(p)
    \/ \E p \in Callers : RegisterTaskIndex(p)
    \/ \E taskID \in TaskIDs : rl.pc = "ready" /\ FindCompletedTask(taskID)

SpecReload == InitReload /\ [][NextReload]_vars


\* ------------------------------------------------------------- the peer task manager
\* The requests for file, stream and seed tasks, their conductors and the conductors'
\* brokers.  newFileTask is peertask_file.go; getPeerTaskConductor, the conductor and
\* the broker are described by the specification (sections 4.1, 4.2 and 4.4).
MaxRequests == 3                \* requests made in one behaviour
Requests == 1..MaxRequests
TaskKinds == {"file", "stream", "seed"}
Urls == {"u"}
Ranges == {"", "0-9"}           \* UrlMeta.Range: the whole object, or a byte range

\* idgen.TaskID: the id is a function of the URL and of the UrlMeta, the range included
TaskID(url, range) == <<url, range>>
PeerTaskIDs == {TaskID(u, r) : u \in Urls, r \in Ranges}

\* kind: the task kind of the request; parent: the file request that started a prefetch
NoRequest == [pc |-> "none", kind |-> "", taskID |-> <<>>, ptc |-> 0, parent |-> 0]

InitPeer ==
    /\ InitStorage(TRUE, NoThresholds)
    /\ EmptyDataPath
    /\ enablePrefetch \in BOOLEAN
    /\ conductors = <<>>
    /\ runningPeerTasks = [t \in PeerTaskIDs |-> 0]
    /\ reusable = {}
    /\ requests = [r \in Requests |-> NoRequest]
    /\ NoPieces
    /\ NoSource
    /\ NoConductor

FreeRequests == {r \in Requests : requests[r].pc = "none"}

NoLookup(taskID) == 0

\* the lookup in the live conductor map
LookupConductor(taskID) == runningPeerTasks[taskID]

\* getPeerTaskConductor: a conductor that is done at once when the storage manager has
\* a completed reusable store for the task, else the live conductor of the task, else a
\* new conductor, stored in the map and started.  The result is the conductor's id with
\* the conductors and the map as the call leaves them.
getPeerTaskConductor(taskID, cs, running) ==
    IF taskID \in reusable
    THEN [ptc |-> Len(cs) + 1, running |-> running,
          conductors |-> Append(cs, [TaskID |-> taskID, state |-> "Success", subscribers |-> {}])]
    ELSE IF LookupConductor(taskID) # 0
    THEN [ptc |-> LookupConductor(taskID), running |-> running, conductors |-> cs]
    ELSE [ptc |-> Len(cs) + 1, running |-> [running EXCEPT ![taskID] = Len(cs) + 1],
          conductors |-> Append(cs, [TaskID |-> taskID, state |-> "Running", subscribers |-> {}])]

\* a file task whatever the request: a prefetch is started
AlwaysPrefetch(kind, range) == kind = "file"

\* newFileTask line 92: ptm.enablePrefetch && request.UrlMeta.Range != ""
StartsPrefetch(kind, range) == kind = "file" /\ enablePrefetch /\ range # ""

\* newFileTask lines 87-94, and the same step of a stream or seed task: the conductor is
\* got; a file request for a byte range starts, when prefetch is enabled, the prefetch
\* of the whole object, which is a seed request of its own
NewTask(r, kind, url, range) ==
    /\ requests[r].pc = "none"
    /\ r = CHOOSE x \in FreeRequests : \A y \in FreeRequests : x <= y
    /\ LET prefetch == StartsPrefetch(kind, range)
           got == getPeerTaskConductor(TaskID(url, range), conductors, runningPeerTasks)
       IN /\ prefetch => Cardinality(FreeRequests) >= 2
          /\ conductors' = got.conductors
          /\ runningPeerTasks' = got.running
          /\ requests' =
                [q \in Requests |->
                    IF q = r THEN [pc |-> "got", kind |-> kind, taskID |-> TaskID(url, range),
                                   ptc |-> got.ptc, parent |-> 0]
                    ELSE IF prefetch /\ q = r + 1
                    THEN [pc |-> "prefetch", kind |-> "seed", taskID |-> TaskID(url, ""),
                          ptc |-> 0, parent |-> r]
                    ELSE requests[q]]
    /\ UNCHANGED <<sourceVars, conductorVars, storageVars, reloadVars, enablePrefetch, reusable, pieceVars>>

\* newFileTask lines 88-90: getPeerTaskConductor returned an error, which newFileTask
\* returns at once: no file task, and line 93 is not reached
NewTaskError(r, kind, url, range) ==
    /\ requests[r].pc = "none"
    /\ r = CHOOSE x \in FreeRequests : \A y \in FreeRequests : x <= y
    /\ requests' = [requests EXCEPT ![r] = [NoRequest EXCEPT !.pc = "error"]]
    /\ UNCHANGED <<sourceVars, conductorVars, storageVars, reloadVars, enablePrefetch, conductors,
                   runningPeerTasks, reusable, pieceVars>>

\* ptm.prefetch, started by line 93: the seed task of the whole object gets its conductor
Prefetch(r) ==
    /\ requests[r].pc = "prefetch"
    /\ LET got == getPeerTaskConductor(requests[r].taskID, conductors, runningPeerTasks)
       IN /\ conductors' = got.conductors
          /\ runningPeerTasks' = got.running
          /\ requests' = [requests EXCEPT ![r].pc = "got", ![r].ptc = got.ptc]
    /\ UNCHANGED <<sourceVars, conductorVars, storageVars, reloadVars, enablePrefetch, reusable, pieceVars>>

\* ptm.prefetch fails: the goroutine of line 93 logs the error and ends
PrefetchError(r) ==
    /\ requests[r].pc = "prefetch"
    /\ requests' = [requests EXCEPT ![r].pc = "prefetchFailed"]
    /\ UNCHANGED <<sourceVars, conductorVars, storageVars, reloadVars, enablePrefetch, conductors,
                   runningPeerTasks, reusable, pieceVars>>

\* newFileTask line 102: ptc.broker.Subscribe()
Subscribe(r) ==
    /\ requests[r].pc = "got"
    /\ conductors' = [conductors EXCEPT ![requests[r].ptc].subscribers = @ \cup {r}]
    /\ requests' = [requests EXCEPT ![r].pc = "subscribed"]
    /\ UNCHANGED <<sourceVars, conductorVars, storageVars, reloadVars, enablePrefetch, runningPeerTasks, reusable,
                   pieceVars>>

\* a consumer ends: its task is over, its caller cancelled, or it crashed
ConsumerEnd(r) ==
    /\ requests[r].pc = "subscribed"
    /\ conductors' = [conductors EXCEPT ![requests[r].ptc].subscribers = @ \ {r}]
    /\ requests' = [requests EXCEPT ![r].pc = "ended"]
    /\ UNCHANGED <<sourceVars, conductorVars, storageVars, reloadVars, enablePrefetch, runningPeerTasks, reusable,
                   pieceVars>>

\* the conductor reaches a terminal state; on Success the task's store is completed
ConductorFinish(c, state) ==
    /\ c \in DOMAIN conductors
    /\ conductors[c].state = "Running"
    /\ conductors' = [conductors EXCEPT ![c].state = state]
    /\ reusable' = IF state = "Success" THEN reusable \cup {conductors[c].TaskID} ELSE reusable
    /\ UNCHANGED <<sourceVars, conductorVars, storageVars, reloadVars, enablePrefetch, runningPeerTasks, requests,
                   pieceVars>>

\* the conductor is torn down when its last subscription has ended and it has reached
\* its terminal state
MayTearDown(c) == conductors[c].subscribers = {} /\ conductors[c].state # "Running"

ConductorTearDown(c) ==
    /\ c \in DOMAIN conductors
    /\ runningPeerTasks[conductors[c].TaskID] = c
    /\ MayTearDown(c)
    /\ runningPeerTasks' = [runningPeerTasks EXCEPT ![conductors[c].TaskID] = 0]
    /\ UNCHANGED <<sourceVars, conductorVars, storageVars, reloadVars, enablePrefetch, conductors, reusable, requests,
                   pieceVars>>

NextPeer ==
    \/ \E r \in Requests, kind \in TaskKinds, url \in Urls, range \in Ranges :
          NewTask(r, kind, url, range)
    \/ \E r \in Requests, kind \in TaskKinds, url \in Urls, range \in Ranges :
          NewTaskError(r, kind, url, range)
    \/ \E r \in Requests : Prefetch(r)
    \/ \E r \in Requests : PrefetchError(r)
    \/ \E r \in Requests : Subscribe(r)
    \/ \E r \in Requests : ConsumerEnd(r)
    \/ \E c \in 1..MaxRequests, state \in {"Success", "Failed"} : ConductorFinish(c, state)
    \/ \E c \in 1..MaxRequests : ConductorTearDown(c)

SpecPeer == InitPeer /\ [][NextPeer]_vars

\* ------------------------------------------------------------- the piece manager
\* DownloadPiece for the pieces of one task, by concurrent workers, as the
\* specification describes it (sections 3, 4.3, 5 and 9): the per-piece guard of the
\* task store, the candidates tried in order, the md5 check, then PublishPieceInfo and
\* ReportPieceResult.
MaxCandidates == 2              \* req.DstPeers: the candidates of one DownloadPiece
PieceNums == {0, 1}
Workers == {1, 2}
\* the md5 of the bytes a candidate sent: req.DigestMD5 or another
DigestMD5 == "md5"
Digests == {DigestMD5, "other"}

NoPiece == [written |-> FALSE, md5 |-> ""]
IdleWorker == [pc |-> "idle", num |-> 0, candidate |-> 0, ret |-> ""]

InitPiece ==
    /\ InitStorage(TRUE, NoThresholds)
    /\ EmptyDataPath
    /\ NoPeerTasks
    /\ pieces = [n \in PieceNums |-> NoPiece]
    /\ guard = [n \in PieceNums |-> 0]
    /\ workers = [w \in Workers |-> IdleWorker]
    /\ published = <<>>
    /\ pieceResults = {}
    /\ fetched = [n \in PieceNums |-> 0]
    /\ NoSource
    /\ NoConductor

\* the piece's bytes are in the store and their md5 is the expected one
PieceDone(n) == pieces[n].written /\ pieces[n].md5 = DigestMD5

GuardAlwaysFree(n) == TRUE

\* the per-piece guard is not held
GuardFree(n) == guard[n] = 0

\* a requester of piece n: the piece is there already, or the guard is taken and the
\* requester fetches from the first candidate, or it waits for the writer
Request(w, n) ==
    IF PieceDone(n)
    THEN /\ workers' = [workers EXCEPT ![w] = [IdleWorker EXCEPT !.num = n, !.ret = "exists"]]
         /\ UNCHANGED guard
    ELSE IF GuardFree(n)
    THEN /\ workers' = [workers EXCEPT ![w] = [pc |-> "fetch", num |-> n, candidate |-> 1,
                                               ret |-> ""]]
         /\ guard' = [guard EXCEPT ![n] = w]
    ELSE /\ workers' = [workers EXCEPT ![w] = [pc |-> "wait", num |-> n, candidate |-> 0,
                                               ret |-> ""]]
         /\ UNCHANGED guard

DownloadPiece(w, n) ==
    /\ workers[w].pc = "idle"
    /\ Request(w, n)
    /\ UNCHANGED <<sourceVars, conductorVars, storageVars, reloadVars, peerVars, pieces, published, pieceResults, fetched>>

\* a waiting requester is woken when the writer has released the guard
Wake(w) ==
    /\ workers[w].pc = "wait"
    /\ guard[workers[w].num] = 0
    /\ Request(w, workers[w].num)
    /\ UNCHANGED <<sourceVars, conductorVars, storageVars, reloadVars, peerVars, pieces, published, pieceResults, fetched>>

\* DownloadPiece giving up at the first candidate that fails
GiveUp(w) ==
    /\ workers' = [workers EXCEPT ![w] = [IdleWorker EXCEPT !.num = workers[w].num,
                                                            !.ret = "failed"]]
    /\ guard' = [guard EXCEPT ![workers[w].num] = IF @ = w THEN 0 ELSE @]
    /\ pieceResults' = pieceResults \cup {[PieceNum |-> workers[w].num, Success |-> FALSE]}

\* the candidate failed: the next candidate, or ErrAllCandidatesFailed when there is
\* none left; the failed attempt is reported and the guard is released
NextCandidate(w) ==
    IF workers[w].candidate < MaxCandidates
    THEN /\ workers' = [workers EXCEPT ![w].pc = "fetch", ![w].candidate = @ + 1]
         /\ UNCHANGED <<guard, pieceResults>>
    ELSE /\ workers' = [workers EXCEPT ![w] = [IdleWorker EXCEPT !.num = workers[w].num,
                                                                 !.ret = "failed"]]
         /\ guard' = [guard EXCEPT ![workers[w].num] = IF @ = w THEN 0 ELSE @]
         /\ pieceResults' = pieceResults \cup {[PieceNum |-> workers[w].num, Success |-> FALSE]}

\* the download stream of the candidate: an error, or the bytes, whose md5 is digest,
\* streamed through the hasher into Storage.WritePiece
FetchPiece(w, ok, digest) ==
    /\ workers[w].pc = "fetch"
    /\ IF ok
       THEN /\ pieces' = [pieces EXCEPT ![workers[w].num] = [written |-> TRUE, md5 |-> digest]]
            /\ workers' = [workers EXCEPT ![w].pc = "verify"]
            /\ UNCHANGED <<guard, pieceResults>>
       ELSE /\ NextCandidate(w)
            /\ UNCHANGED pieces
    /\ UNCHANGED <<sourceVars, conductorVars, storageVars, reloadVars, peerVars, published, fetched>>

AnyMd5(md5) == TRUE

\* the checksum of the bytes written against req.DigestMD5
Md5Matches(md5) == md5 = DigestMD5

\* on a match the piece metadata is marked done; on a mismatch the partial piece is
\* deleted and the next candidate is tried
VerifyPiece(w) ==
    /\ workers[w].pc = "verify"
    /\ IF Md5Matches(pieces[workers[w].num].md5)
       THEN /\ workers' = [workers EXCEPT ![w].pc = "publish"]
            /\ fetched' = [fetched EXCEPT ![workers[w].num] = @ + 1]
            /\ UNCHANGED <<pieces, guard, pieceResults>>
       ELSE /\ pieces' = [pieces EXCEPT ![workers[w].num] = NoPiece]
            /\ NextCandidate(w)
            /\ UNCHANGED fetched
    /\ UNCHANGED <<sourceVars, conductorVars, storageVars, reloadVars, peerVars, published>>

\* peerTask.PublishPieceInfo(num, size)
PublishPieceInfo(w) ==
    /\ workers[w].pc = "publish"
    /\ published' = Append(published, workers[w].num)
    /\ workers' = [workers EXCEPT ![w].pc = "report"]
    /\ UNCHANGED <<sourceVars, conductorVars, storageVars, reloadVars, peerVars, pieces, guard, pieceResults, fetched>>

\* peerTask.ReportPieceResult(req, result, nil); the call returns and the guard is
\* released
ReportPieceResult(w) ==
    /\ workers[w].pc = "report"
    /\ pieceResults' = pieceResults \cup {[PieceNum |-> workers[w].num, Success |-> TRUE]}
    /\ guard' = [guard EXCEPT ![workers[w].num] = IF @ = w THEN 0 ELSE @]
    /\ workers' = [workers EXCEPT ![w] = [IdleWorker EXCEPT !.num = workers[w].num,
                                                            !.ret = "ok"]]
    /\ UNCHANGED <<sourceVars, conductorVars, storageVars, reloadVars, peerVars, pieces, published, fetched>>

NextPiece ==
    \/ \E w \in Workers, n \in PieceNums : DownloadPiece(w, n)
    \/ \E w \in Workers : Wake(w)
    \/ \E w \in Workers, ok \in BOOLEAN, digest \in Digests : FetchPiece(w, ok, digest)
    \/ \E w \in Workers : VerifyPiece(w)
    \/ \E w \in Workers : PublishPieceInfo(w)
    \/ \E w \in Workers : ReportPieceResult(w)

SpecPiece == InitPiece /\ [][NextPiece]_vars

\* ------------------------------------------------------------- DownloadSource
\* pieceManager.DownloadSource is not part of the sources at hand; it is modelled from
\* its specification and from TestPieceManager_DownloadSource: the source is opened,
\* its Content-Length, when it sends one, is set on the peer task with the number of
\* pieces, the body is read piece by piece into the task's store at the piece's
\* offset, each piece is published, and the digest of the body read is compared with
\* the request's when it carries one. Store then copies the store's data to the output.
MaxBody == 3                    \* the longest source body, in bytes
SourceBytes == {0, 1}
RECURSIVE BodiesOf(_)
BodiesOf(n) ==
    IF n = 0 THEN {<<>>}
    ELSE BodiesOf(n - 1) \cup {Append(b, x) : b \in {c \in BodiesOf(n - 1) : Len(c) = n - 1},
                                              x \in SourceBytes}
Bodies == BodiesOf(MaxBody)
\* computePieceSize as the test replaces it: smaller than, equal to, larger than a body
PieceSizes == 1..(MaxBody + 1)

\* the digest of a byte sequence, as a checksum
HashMod == 7
RECURSIVE Md5Of(_)
Md5Of(bytes) ==
    IF bytes = <<>> THEN 1
    ELSE (3 * Md5Of(SubSeq(bytes, 1, Len(bytes) - 1)) + bytes[Len(bytes)] + 1) % HashMod
NoDigest == -1
RequestDigests == {NoDigest} \cup (0..(HashMod - 1))

\* the number of pieces of a body of a known length
FloorPieces(length, pieceSize) == length \div pieceSize
MaxPieceNum(length, pieceSize) == (length + pieceSize - 1) \div pieceSize

\* the offset of a piece in the store's data
OffsetOfNum(pieceNum, pieceSize) == pieceNum
PieceOffset(pieceNum, pieceSize) == pieceNum * pieceSize

\* Storage.WritePiece: the bytes written at the offset
WriteAt(data, offset, bytes) ==
    [i \in 1..Max(Len(data), offset + Len(bytes)) |->
        IF i > offset /\ i <= offset + Len(bytes) THEN bytes[i - offset]
        ELSE IF i <= Len(data) THEN data[i] ELSE 0]

\* what the reader returns for a piece: at most pieceSize bytes from where it stands
ReadFrom(body, read, pieceSize) ==
    SubSeq(body, read + 1, IF read + pieceSize <= Len(body) THEN read + pieceSize ELSE Len(body))

\* DownloadSource not called yet; TotalPieces and ContentLength are the peer task's
BeforeDownload ==
    [pc |-> "open", pieceNum |-> 0, read |-> 0, ContentLength |-> -1, TotalPieces |-> -1,
     data |-> <<>>, published |-> <<>>, err |-> "", output |-> <<>>]

InitSource ==
    /\ InitStorage(TRUE, NoThresholds)
    /\ EmptyDataPath
    /\ NoPeerTasks
    /\ NoPieces
    /\ NoConductor
    /\ \E body \in Bodies, pieceSize \in PieceSizes, withContentLength \in BOOLEAN,
          digest \in RequestDigests :
          src = [body |-> body, pieceSize |-> pieceSize,
                 withContentLength |-> withContentLength, digest |-> digest]
    /\ ds = BeforeDownload

\* the source is opened: with a Content-Length the peer task learns the length and the
\* number of pieces now
OpenSource ==
    /\ ds.pc = "open"
    /\ ds' = IF src.withContentLength
             THEN [ds EXCEPT !.pc = IF MaxPieceNum(Len(src.body), src.pieceSize) = 0
                                    THEN "digest" ELSE "read",
                             !.ContentLength = Len(src.body),
                             !.TotalPieces = MaxPieceNum(Len(src.body), src.pieceSize)]
             ELSE [ds EXCEPT !.pc = "read"]
    /\ UNCHANGED <<storageVars, reloadVars, peerVars, pieceVars, conductorVars, src>>

\* one piece is read and written at its offset. With a known length the loop ends at
\* the last piece number; with an unknown one a short read is the last piece, an
\* empty read is no piece, and the peer task learns the length and the number of
\* pieces then.
ReadPiece ==
    /\ ds.pc = "read"
    /\ LET bytes == ReadFrom(src.body, ds.read, src.pieceSize)
           write == [ds EXCEPT !.data = WriteAt(@, PieceOffset(ds.pieceNum, src.pieceSize), bytes),
                               !.published = Append(@, [num |-> ds.pieceNum, size |-> Len(bytes)]),
                               !.pieceNum = @ + 1,
                               !.read = @ + Len(bytes)]
       IN ds' = IF src.withContentLength
                THEN [write EXCEPT !.pc = IF write.pieceNum = ds.TotalPieces
                                          THEN "digest" ELSE "read"]
                ELSE IF Len(bytes) = src.pieceSize THEN write
                ELSE IF Len(bytes) = 0
                THEN [ds EXCEPT !.pc = "digest", !.ContentLength = ds.read,
                                !.TotalPieces = ds.pieceNum]
                ELSE [write EXCEPT !.pc = "digest", !.ContentLength = write.read,
                                   !.TotalPieces = write.pieceNum]
    /\ UNCHANGED <<storageVars, reloadVars, peerVars, pieceVars, conductorVars, src>>

\* the digest of the body read against the request's, when it carries one
VerifyDigest ==
    /\ ds.pc = "digest"
    /\ ds' = IF src.digest # NoDigest /\ Md5Of(SubSeq(src.body, 1, ds.read)) # src.digest
             THEN [ds EXCEPT !.pc = "done", !.err = "digest mismatch"]
             ELSE [ds EXCEPT !.pc = "done"]
    /\ UNCHANGED <<storageVars, reloadVars, peerVars, pieceVars, conductorVars, src>>

\* storageManager.Store after a DownloadSource that returned nil: the data to the output
StoreOutput ==
    /\ ds.pc = "done"
    /\ ds.err = ""
    /\ ds' = [ds EXCEPT !.pc = "stored", !.output = ds.data]
    /\ UNCHANGED <<storageVars, reloadVars, peerVars, pieceVars, conductorVars, src>>

NextSource ==
    \/ OpenSource
    \/ ReadPiece
    \/ VerifyDigest
    \/ StoreOutput

SpecSource == InitSource /\ [][NextSource]_vars

\* ------------------------------------------------------------- conductor, broker, file task
\* The peerTaskConductor and its pieceBroker are not part of the sources at hand; they
\* are modelled from their specification. The conductor publishes a piece event for
\* every completed piece and ends on one of three paths: success (ReportPeerResult,
\* then the broker is closed, then the transition), failure and cancellation (the
\* broker is closed and ReportPeerResult is sent, in an order the specification leaves
\* open, then the transition to Failed). The broker keeps one unbounded queue per
\* subscriber; Close publishes the finished sentinel and shuts the channels. The file
\* task is fileTask.syncProgress of peertask_file.go.
MaxPieces == 2                  \* TotalPieces of the task
Subscribers == {1, 2}
Paths == {"success", "fail", "cancel"}

PieceEvent(n) == [num |-> n, finished |-> FALSE]
Sentinel == [num |-> -1, finished |-> TRUE]

\* the pieces have PieceSize bytes each, the last one a single byte
PieceSize == 2
PieceLength(n) == IF n < MaxPieces - 1 THEN PieceSize ELSE 1
TotalLength == (MaxPieces - 1) * PieceSize + 1
\* the content length of a task before it is known
UnknownLength == -1

NewConductor ==
    [state |-> "Running", path |-> "", published |-> 0, left |-> FALSE,
     reports |-> <<>>, successCh |-> FALSE, failCh |-> FALSE, failedCode |-> "",
     failedReason |-> "", completedLength |-> 0, contentLength |-> UnknownLength]
NewBroker ==
    [closed |-> FALSE, events |-> <<>>,
     subscribed |-> [i \in Subscribers |-> FALSE],
     since |-> [i \in Subscribers |-> 0],
     queues |-> [i \in Subscribers |-> <<>>]]
\* pg: the progress built and not sent yet; stored: the results of the Store calls
NoProgress ==
    [Success |-> FALSE, Code |-> "", Msg |-> "", ContentLength |-> 0, CompletedLength |-> 0,
     PeerTaskDone |-> FALSE]
NewFileTask ==
    [pc |-> "new", ctxDone |-> FALSE, received |-> <<>>, observed |-> <<>>,
     pg |-> NoProgress, stored |-> <<>>, progress |-> <<>>]

InitConductor ==
    /\ InitStorage(TRUE, NoThresholds)
    /\ EmptyDataPath
    /\ NoPeerTasks
    /\ NoPieces
    /\ NoSource
    /\ pt \in {[NewConductor EXCEPT !.contentLength = l] : l \in {UnknownLength, TotalLength}}
    /\ broker = NewBroker
    /\ ft = [i \in Subscribers |-> NewFileTask]

NeverTerminal(c) == FALSE
\* Success and Failed, the terminal states
Terminal(c) == c.state \in {"Success", "Failed"}

BoundedAccept(q) == Len(q) < 1
\* a subscriber's queue is unbounded: it takes an event whatever it holds
CanAccept(q) == TRUE

PushFront(q, e) == <<e>> \o q
Enqueue(q, e) == Append(q, e)

\* pieceBroker.Publish: the event goes to the queue of every subscriber
Publish(b, e) ==
    [b EXCEPT !.events = Append(@, e),
              !.queues = [i \in Subscribers |->
                             IF b.subscribed[i] THEN Enqueue(b.queues[i], e) ELSE b.queues[i]]]

\* the scheduler signals NeedBackSource: the rest comes from the source
NeedBackSource ==
    /\ pt.state = "Running"
    /\ pt.path = ""
    /\ pt' = [pt EXCEPT !.state = "BackSource"]
    /\ UNCHANGED <<storageVars, reloadVars, peerVars, pieceVars, sourceVars, broker, ft>>

LastCompleted(done, n) == PieceLength(n)
\* completedLength.Add(size) for piece n
AddCompleted(done, n) == done + PieceLength(n)

\* a piece is completed, from a peer or from the source: PublishPieceInfo
PublishPiece ==
    /\ ~Terminal(pt)
    /\ pt.path = ""
    /\ pt.published < MaxPieces
    /\ \A i \in Subscribers : broker.subscribed[i] => CanAccept(broker.queues[i])
    /\ pt' = [pt EXCEPT !.published = @ + 1,
                        !.completedLength = AddCompleted(@, pt.published)]
    /\ broker' = Publish(broker, PieceEvent(pt.published))
    /\ UNCHANGED <<storageVars, reloadVars, peerVars, pieceVars, sourceVars, ft>>

\* the conductor starts to end: every piece is there, an error that is not retried
\* occurred, or the caller cancelled
Finish(path) ==
    /\ ~Terminal(pt)
    /\ pt.path = ""
    /\ path = "success" => pt.published = MaxPieces
    /\ pt' = [pt EXCEPT !.path = path,
                        !.failedCode = CASE path = "success" -> ""
                                         [] path = "fail" -> "ClientPieceDownloadFail"
                                         [] path = "cancel" -> "ClientContextCanceled",
                        !.failedReason = CASE path = "success" -> ""
                                           [] path = "fail" -> "download piece failed"
                                           [] path = "cancel" -> "context canceled",
                        !.contentLength = IF path = "success" THEN pt.completedLength ELSE @]
    /\ UNCHANGED <<storageVars, reloadVars, peerVars, pieceVars, sourceVars, broker, ft>>

\* cancellation: LeaveTask first
LeaveTask ==
    /\ pt.path = "cancel"
    /\ ~pt.left
    /\ pt' = [pt EXCEPT !.left = TRUE]
    /\ UNCHANGED <<storageVars, reloadVars, peerVars, pieceVars, sourceVars, broker, ft>>

MayReportAgain(c) == TRUE
\* no ReportPeerResult sent yet
NotReported(c) == c.reports = <<>>

\* ReportPeerResult to the scheduler, once
ReportPeerResult ==
    /\ pt.path # ""
    /\ ~Terminal(pt)
    /\ NotReported(pt)
    /\ pt.path = "cancel" => pt.left
    /\ pt' = [pt EXCEPT !.reports = Append(@, pt.path = "success")]
    /\ UNCHANGED <<storageVars, reloadVars, peerVars, pieceVars, sourceVars, broker, ft>>

\* pieceBroker.Close: the sentinel to every subscriber, then the channels are shut
CloseBroker ==
    /\ pt.path # ""
    /\ ~broker.closed
    /\ pt.path = "success" => pt.reports # <<>>
    /\ pt.path = "cancel" => pt.left
    /\ broker' = [Publish(broker, Sentinel) EXCEPT !.closed = TRUE]
    /\ UNCHANGED <<storageVars, reloadVars, peerVars, pieceVars, sourceVars, pt, ft>>

\* the transition to the terminal state: successCh or failCh is closed
Transition ==
    /\ pt.path # ""
    /\ ~Terminal(pt)
    /\ pt.reports # <<>>
    /\ broker.closed
    /\ pt' = IF pt.path = "success"
             THEN [pt EXCEPT !.state = "Success", !.successCh = TRUE]
             ELSE [pt EXCEPT !.state = "Failed", !.failCh = TRUE]
    /\ UNCHANGED <<storageVars, reloadVars, peerVars, pieceVars, sourceVars, broker, ft>>

\* newFileTask line 102 and Start: the file task subscribes, syncProgress starts. A
\* subscriber of a closed broker gets a channel that is shut.
SubscribeBroker(i) ==
    /\ ft[i].pc = "new"
    /\ broker' = [broker EXCEPT !.subscribed[i] = TRUE, !.since[i] = Len(broker.events)]
    /\ ft' = [ft EXCEPT ![i].pc = "select"]
    /\ UNCHANGED <<storageVars, reloadVars, peerVars, pieceVars, sourceVars, pt>>

\* the caller cancels the file task's context
CancelCtx(i) ==
    /\ ft[i].pc \in {"select", "send", "stop"}
    /\ ~ft[i].ctxDone
    /\ ft' = [ft EXCEPT ![i].ctxDone = TRUE]
    /\ UNCHANGED <<storageVars, reloadVars, peerVars, pieceVars, sourceVars, pt, broker>>

\* lines 178-215 and 217-256: the terminal progress goes to the consumer, or the
\* context is done first
\* FileTaskProgress: ContentLength and CompletedLength are read from the conductor
\* when the progress is built
TerminalProgress(success, code, msg) ==
    [Success |-> success, Code |-> code, Msg |-> msg, ContentLength |-> pt.contentLength,
     CompletedLength |-> pt.completedLength, PeerTaskDone |-> TRUE]
\* lines 134-145
Downloading ==
    [Success |-> TRUE, Code |-> "Success", Msg |-> "downloading",
     ContentLength |-> pt.contentLength, CompletedLength |-> pt.completedLength,
     PeerTaskDone |-> FALSE]

IgnoreStoreError(stored) == TerminalProgress(TRUE, "Success", "done")
\* lines 159-176, storeToOutput: the progress after Store returned
StoreProgress(stored) ==
    IF stored THEN TerminalProgress(TRUE, "Success", "done")
    ELSE TerminalProgress(FALSE, "ClientError", "store error")

GenericFail(c) == TerminalProgress(FALSE, "ClientError", "")
\* line 127: sendFailProgress(failedCode, failedReason)
FailProgress(c) == TerminalProgress(FALSE, c.failedCode, c.failedReason)

NeverSkips(e) == FALSE
\* lines 131-133: the finished sentinel is passed over
SkipsEvent(e) == e.finished

LoopsOn == "select"
\* lines 125 and 128: syncProgress returns after storeToOutput or sendFailProgress
AfterOutcome == "returned"

\* lines 123-125: successCh is closed; storeToOutput, whose Store succeeds or fails;
\* the terminal progress is offered to the consumer (lines 196-204, 239-244)
SyncSuccess(i, stored, sent) ==
    /\ ft[i].pc = "select"
    /\ pt.successCh
    /\ sent \/ ft[i].ctxDone
    /\ ft' = [ft EXCEPT ![i].pc = "stop",
                        ![i].observed = Append(@, "success"),
                        ![i].stored = Append(@, stored),
                        ![i].progress = IF sent THEN Append(@, StoreProgress(stored)) ELSE @]
    /\ UNCHANGED <<storageVars, reloadVars, peerVars, pieceVars, sourceVars, pt, broker>>

\* lines 126-128: failCh is closed; sendFailProgress(failedCode, failedReason)
SyncFail(i, sent) ==
    /\ ft[i].pc = "select"
    /\ pt.failCh
    /\ sent \/ ft[i].ctxDone
    /\ ft' = [ft EXCEPT ![i].pc = "stop",
                        ![i].observed = Append(@, "fail"),
                        ![i].progress = IF sent THEN Append(@, FailProgress(pt)) ELSE @]
    /\ UNCHANGED <<storageVars, reloadVars, peerVars, pieceVars, sourceVars, pt, broker>>

OnlyStopCh(i, stopped) == stopped
\* lines 206-214 and 246-255: the two cases of the select that ends both senders,
\* progressStopCh is shut or the context is done
StopSignal(i, stopped) == stopped \/ ft[i].ctxDone

\* lines 206-214 and 246-255: the wait for progressStopCh, which the DoneCallback of
\* the terminal event shuts, or for the context; then syncProgress returns
WaitStop(i, stopped) ==
    /\ ft[i].pc = "stop"
    /\ StopSignal(i, stopped)
    /\ stopped => \E k \in DOMAIN ft[i].progress : ft[i].progress[k].PeerTaskDone
    /\ ft' = [ft EXCEPT ![i].pc = AfterOutcome]
    /\ UNCHANGED <<storageVars, reloadVars, peerVars, pieceVars, sourceVars, pt, broker>>

\* lines 130-133: an event from pieceCh; the sentinel is passed over
SyncPiece(i) ==
    /\ ft[i].pc = "select"
    /\ broker.queues[i] # <<>>
    /\ broker' = [broker EXCEPT !.queues[i] = Tail(@)]
    /\ ft' = [ft EXCEPT ![i].received = Append(@, Head(broker.queues[i])),
                        ![i].pg = IF SkipsEvent(Head(broker.queues[i])) THEN @ ELSE Downloading,
                        ![i].pc = IF SkipsEvent(Head(broker.queues[i])) THEN "select" ELSE "send"]
    /\ UNCHANGED <<storageVars, reloadVars, peerVars, pieceVars, sourceVars, pt>>

\* lines 130-131: pieceCh is shut and empty, the receive yields nil and piece.finished
\* dereferences it
SyncClosed(i) ==
    /\ ft[i].pc = "select"
    /\ broker.queues[i] = <<>>
    /\ broker.closed
    /\ ft' = [ft EXCEPT ![i].pc = "panic"]
    /\ UNCHANGED <<storageVars, reloadVars, peerVars, pieceVars, sourceVars, pt, broker>>

\* lines 134-154: the progress of the piece goes to the consumer, or the context is
\* done and syncProgress returns
SendProgress(i, sent) ==
    /\ ft[i].pc = "send"
    /\ sent \/ ft[i].ctxDone
    /\ ft' = IF sent
             THEN [ft EXCEPT ![i].pc = "select", ![i].pg = NoProgress,
                             ![i].progress = Append(@, ft[i].pg)]
             ELSE [ft EXCEPT ![i].pc = "returned", ![i].pg = NoProgress]
    /\ UNCHANGED <<storageVars, reloadVars, peerVars, pieceVars, sourceVars, pt, broker>>

NextConductor ==
    \/ NeedBackSource
    \/ PublishPiece
    \/ \E path \in Paths : Finish(path)
    \/ LeaveTask
    \/ ReportPeerResult
    \/ CloseBroker
    \/ Transition
    \/ \E i \in Subscribers : SubscribeBroker(i)
    \/ \E i \in Subscribers : CancelCtx(i)
    \/ \E i \in Subscribers, stored \in BOOLEAN, sent \in BOOLEAN : SyncSuccess(i, stored, sent)
    \/ \E i \in Subscribers, sent \in BOOLEAN : SyncFail(i, sent)
    \/ \E i \in Subscribers, stopped \in BOOLEAN : WaitStop(i, stopped)
    \/ \E i \in Subscribers : SyncPiece(i)
    \/ \E i \in Subscribers : SyncClosed(i)
    \/ \E i \in Subscribers, sent \in BOOLEAN : SendProgress(i, sent)

SpecConductor == InitConductor /\ [][NextConductor]_vars

\* one step of the goroutine of file task i: a select of syncProgress, of
\* sendSuccessProgress or of sendFailProgress takes a case that is ready
FileTaskStep(i) ==
    \E stored \in BOOLEAN, sent \in BOOLEAN, stopped \in BOOLEAN :
        \/ SyncSuccess(i, stored, sent)
        \/ SyncFail(i, sent)
        \/ WaitStop(i, stopped)
        \/ SyncPiece(i)
        \/ SyncClosed(i)
        \/ SendProgress(i, sent)

\* the conductor and the file tasks with a scheduler that runs a goroutine whose
\* select has a ready case, and a consumer that receives what is offered to it and
\* calls DoneCallback on the terminal event
SpecFileTaskLive ==
    SpecConductor /\ \A i \in Subscribers : WF_vars(FileTaskStep(i))

\* ------------------------------------------------------------- the claims
LiveConductors(taskID) ==
    {c \in DOMAIN conductors : conductors[c].TaskID = taskID /\ conductors[c].state = "Running"}

\* C1: a TaskID has at most one live (Running) conductor, and it is the one in the
\* conductor map; a request made while the TaskID has a live conductor gets that
\* conductor and creates none; a conductor leaves the map only when it has no
\* subscriber left, so not while, one consumer having ended, another is subscribed.
C1_OneConductorPerTask ==
    /\ [](\A t \in PeerTaskIDs :
             /\ Cardinality(LiveConductors(t)) <= 1
             /\ \A c \in LiveConductors(t) : runningPeerTasks[t] = c)
    /\ [][/\ \A r \in Requests :
                (requests[r].pc # "got" /\ requests'[r].pc = "got"
                 /\ LiveConductors(requests'[r].taskID) # {})
                    => /\ requests'[r].ptc \in LiveConductors(requests'[r].taskID)
                       /\ Len(conductors') = Len(conductors)
          /\ \A t \in PeerTaskIDs :
                (runningPeerTasks[t] # 0 /\ runningPeerTasks'[t] = 0)
                    => conductors[runningPeerTasks[t]].subscribers = {}]_vars

\* two requests are subscribed to the one live conductor of their task, a third
\* consumer of the same conductor has ended
C1_Witness ==
    \E c \in DOMAIN conductors :
        /\ conductors[c].state = "Running"
        /\ Cardinality(conductors[c].subscribers) = 2
        /\ \E r \in Requests : requests[r].pc = "ended" /\ requests[r].ptc = c

\* C2: every piece given to PublishPieceInfo and every piece with a successful
\* PieceResult has its bytes in the store with the expected md5, and so has the piece
\* of a worker about to publish or to report.
C2_ReportedAfterWrittenAndVerified ==
    /\ \A i \in DOMAIN published : PieceDone(published[i])
    /\ \A res \in pieceResults : res.Success => PieceDone(res.PieceNum)
    /\ \A w \in Workers : workers[w].pc \in {"publish", "report"} => PieceDone(workers[w].num)

\* a piece was reported as failed after a checksum mismatch, then fetched again,
\* verified, published and reported as successful
C2_Witness ==
    \E n \in PieceNums :
        /\ [PieceNum |-> n, Success |-> FALSE] \in pieceResults
        /\ [PieceNum |-> n, Success |-> TRUE] \in pieceResults
        /\ \E i \in DOMAIN published : published[i] = n

\* C3: a piece has at most one writer at a time, the holder of its guard, and the guard
\* is held by nobody but a writer (a writer that failed has released it); the piece is
\* fetched and written with a matching md5 at most once, and published at most once.
Writers(n) == {w \in Workers : workers[w].num = n
                               /\ workers[w].pc \in {"fetch", "verify", "publish", "report"}}
C3_OneWriterPerPiece ==
    \A n \in PieceNums :
        /\ Cardinality(Writers(n)) <= 1
        /\ \A w \in Writers(n) : guard[n] = w
        /\ guard[n] # 0 => guard[n] \in Writers(n)
        /\ fetched[n] <= 1
        /\ Len(SelectSeq(published, LAMBDA x : x = n)) <= 1

\* the first writer of a piece failed, a second one took the guard over and wrote the
\* piece, and a requester of the piece waits for it
C3_Witness ==
    \E n \in PieceNums, w \in Workers :
        /\ [PieceNum |-> n, Success |-> FALSE] \in pieceResults
        /\ Writers(n) # {}
        /\ fetched[n] = 1
        /\ workers[w].pc = "wait" /\ workers[w].num = n

Live(key) == {id \in StoreIDs : KeyOf(stores[id]) = key /\ ~stores[id].removed}
Creating(id) == \E p \in Callers : reg[p].pc = "index" /\ reg[p].id = id
IndexEntries(key) ==
    {i \in DOMAIN indexTask2PeerTask[key.TaskID] :
        stores[indexTask2PeerTask[key.TaskID][i]].PeerID = key.PeerID}
Lookups == {"RegisterTask", "FindCompletedTask"} \cup TaskOps

\* C4: under any interleaving of RegisterTask calls, a key has at most one store that
\* no GC has taken out of the map; that store is the one under the key in the task
\* map, it is in the TaskID index exactly once as soon as its creating call has
\* returned, and every RegisterTask call for the key returns it.
C4_RegisterTaskIdempotent ==
    \A key \in Keys :
        /\ Cardinality(Live(key)) <= 1
        /\ \A id \in Live(key) :
              /\ tasks[key] = id
              /\ Count(indexTask2PeerTask[key.TaskID], id) = IF Creating(id) THEN 0 ELSE 1
        /\ (last.op = "RegisterTask" /\ last.key = key)
              => (last.ret \in Live(key) \/ stores[last.ret].removed)

\* a caller that found no store at its first LoadTask waits for the mutex while the
\* other caller has created the store and returned it
C4_Witness ==
    \E p \in Callers :
        /\ reg[p].pc = "lock"
        /\ last.op = "RegisterTask" /\ last.key = reg[p].key
        /\ tasks[reg[p].key] = last.ret /\ last.ret # 0

Reusable(id) == stores[id].Done /\ ~stores[id].invalid /\ ~stores[id].reclaimMarked

\* C5: what FindCompletedTask(taskID) returns is Done, not invalid and not marked for
\* reclaim, it is the first such store of the index entry and its last access is now;
\* it returns nil only when the index entry holds no such store.
C5_FindCompletedTaskResult ==
    last.op = "FindCompletedTask" =>
        LET ts == indexTask2PeerTask[last.key.TaskID] IN
        IF last.ret = 0 THEN \A i \in DOMAIN ts : ~Reusable(ts[i])
        ELSE /\ Reusable(last.ret)
             /\ \E i \in DOMAIN ts : /\ ts[i] = last.ret
                                     /\ \A j \in 1..(i - 1) : ~Reusable(ts[j])
             /\ stores[last.ret].lastAccess = now

\* FindCompletedTask passed over the first store of the entry and returned the second
C5_Witness ==
    /\ last.op = "FindCompletedTask"
    /\ last.ret # 0
    /\ indexTask2PeerTask[last.key.TaskID][1] # last.ret

\* C6 (as claimed): a pass deletes and reclaims only stores under keys of the pending
\* list, and never a store that this same pass was the first to mark.
C6_TwoPhase ==
    gc.pc \in {"clean", "files"} =>
        /\ \E i \in DOMAIN markedReclaimTasks : markedReclaimTasks[i] = KeyOf(stores[gc.cur])
        /\ gc.cur \notin gc.newly

C8_NeverDeletesRecentlyTouched ==
    gc.pc = "files" => now - stores[gc.cur].lastAccess >= TaskExpireTime

\* C8 (amended): the stores that the expiry scan of a pass marks were last accessed
\* more than TaskExpireTime before the pass.
C8_ScanMarksOnlyExpired ==
    last.op = "TryGCMark" =>
        \A id \in gc.scanned : now - stores[id].lastAccess > TaskExpireTime

\* a pass whose scan marked a store while leaving another, unexpired one unmarked
C8_Witness ==
    /\ last.op = "TryGCMark"
    /\ gc.scanned # {}
    /\ \E id \in StoreIDs : tasks[KeyOf(stores[id])] = id /\ ~stores[id].reclaimMarked

DataPresent(c) == c.data \in {"file", "hardlink"} \/ (c.data = "symlink" /\ c.dest)

\* C10 (as claimed): when ReloadPersistentTask has returned, every directory is either
\* registered (in the task map and once in the index) with parseable metadata and its
\* data present, or is not registered and is gone with its metadata, its data file and
\* the destination file its data was linked to.
C10_ReloadAllOrNothing ==
    rl.pc = "done" =>
        \A d \in Keys :
            \/ /\ tasks[d] # 0
               /\ Count(indexTask2PeerTask[d.TaskID], tasks[d]) = 1
               /\ disk[d].dir
               /\ disk[d].metadata \in {"undone", "done"}
               /\ DataPresent(disk[d])
            \/ /\ tasks[d] = 0
               /\ disk[d] = NoDir

\* the directories of the data root whose metadata is parseable / is not
Loadable == {d \in Keys : disk[d].dir /\ disk[d].metadata \in {"undone", "done"}}
NotLoadable == {d \in Keys : disk[d].dir /\ disk[d].metadata \notin {"undone", "done"}}

\* C11: when the reload's loop over the data root is over, every directory whose
\* metadata is parseable is in the task map and once in the index, whatever failed
\* before or after it, and every directory that failed has exactly one error in
\* loadErrs; the error returned is non-nil exactly when loadErrs is not empty and
\* carries them all; NewStorageManager returns the manager with a nil error, and what
\* is registered on it later is in the map and in the index.
C11_ReloadBestEffort ==
    /\ (rl.pc = "tasks" /\ rl.dirs = <<>> /\ rl.j = 0) =>
          /\ \A d \in Loadable :
                 /\ tasks[d] # 0
                 /\ Count(indexTask2PeerTask[d.TaskID], tasks[d]) = 1
          /\ \A d \in NotLoadable :
                 /\ tasks[d] = 0
                 /\ Cardinality({i \in DOMAIN rl.loadErrs : rl.loadErrs[i].key = d}) = 1
          /\ Len(rl.loadErrs) = Cardinality(NotLoadable)
    /\ rl.pc \in {"done", "ready"} =>
          /\ rl.err = (rl.loadErrs # <<>>)
          /\ Len(rl.loadErrs) = Len(rl.loadErrDirs)
          /\ \A d \in Loadable : tasks[d] # 0
    /\ last.op = "NewStorageManager" => last.ret = 0
    /\ (rl.pc = "ready" /\ last.op = "RegisterTask") =>
          /\ tasks[last.key] = last.ret
          /\ Count(indexTask2PeerTask[last.key.TaskID], last.ret) = 1

\* the reload returned an error for a directory that lay between two loadable ones,
\* and FindCompletedTask finds the second of them on the manager returned
C11_Witness ==
    /\ rl.pc = "ready"
    /\ rl.err
    /\ Cardinality(Loadable) = 2
    /\ rl.loadErrDirs = <<PeerTaskMetadata("p2", "t1")>>
    /\ last.op = "FindCompletedTask" /\ last.ret = 2

\* the stores the quota phase of the pass marked, and the stores it could have marked
\* and did not: in the map, not marked, and Done or idle for gcInterval
QuotaMarked == gc.newly \ gc.scanned
EligibleLeft ==
    {id \in StoreIDs : /\ tasks[KeyOf(stores[id])] = id
                       /\ ~stores[id].reclaimMarked
                       /\ (stores[id].Done \/ now - stores[id].lastAccess >= gcInterval)}
RECURSIVE SumContentLength(_)
SumContentLength(S) ==
    IF S = {} THEN 0
    ELSE LET id == CHOOSE x \in S : TRUE
         IN stores[id].ContentLength + SumContentLength(S \ {id})

\* C12 (as claimed): after the quota phase of a pass, no eligible store left unmarked
\* is older than a store the phase marked; eligible stores are left unmarked only when
\* the bytes to reclaim, less the ContentLength of the stores marked, are <= 0; and the
\* store marked last was marked while the bytes to reclaim were still > 0.
C12_QuotaMarksOldestUntilEnough ==
    (last.op = "TryGCMark" /\ last.ret # -1) =>
        /\ \A m \in QuotaMarked, e \in EligibleLeft :
               stores[m].lastAccess <= stores[e].lastAccess
        /\ EligibleLeft # {} => last.ret - SumContentLength(QuotaMarked) <= 0
        /\ QuotaMarked # {} =>
               \E m \in QuotaMarked : last.ret - SumContentLength(QuotaMarked \ {m}) > 0

\* totalNotMarkedSize of the pass: the ContentLength of the stores of the map that the
\* scan left unmarked
NotMarkedByScan ==
    QuotaMarked \cup {id \in StoreIDs : tasks[KeyOf(stores[id])] = id /\ ~stores[id].reclaimMarked}

\* C13 (as claimed): a pass marks a store that is not expired only if the byte quota
\* is set and totalNotMarkedSize is greater than it, or the UsedPercent read is greater
\* than DiskGCThresholdPercent; a UsedPercent equal to the threshold marks nothing more.
C13_QuotaPhaseOnlyWhenExceeded ==
    last.op = "TryGCMark" =>
        \/ DiskGCThreshold > 0 /\ SumContentLength(NotMarkedByScan) > DiskGCThreshold
        \/ DiskGCThresholdPercent > 0 /\ last.used > DiskGCThresholdPercent
        \/ \A id \in gc.newly : now - stores[id].lastAccess > TaskExpireTime

Ceil(a, b) == (a + b - 1) \div b
Marked == {id \in StoreIDs : stores[id].reclaimMarked}
Reclaimed == {id \in StoreIDs : stores[id].reclaimed}
\* N completed stores of one size S, those not reclaimed unexpired, and a byte quota
\* T < N * S with the disk-usage check off
EqualStoresOverQuota ==
    /\ DiskGCThresholdPercent = 0
    /\ StoreIDs # {}
    /\ \A id \in StoreIDs : /\ stores[id].Done
                            /\ stores[id].ContentLength = stores[1].ContentLength
                            /\ id \notin Reclaimed =>
                                  now - stores[id].lastAccess <= TaskExpireTime
    /\ DiskGCThreshold < Len(stores) * stores[1].ContentLength
ToReclaim ==
    Ceil(Len(stores) * stores[1].ContentLength - DiskGCThreshold, stores[1].ContentLength)

\* C14 (as claimed): with N completed, unexpired stores of one size S and
\* DiskGCThreshold T < N * S, the first of two consecutive TryGC passes leaves exactly
\* ceil((N*S - T)/S) stores pending, none of them accessed later than a store it leaves
\* alone; the second has reclaimed exactly that many stores when it ends; after it
\* FindCompletedTask never returns a reclaimed store and finds a store of a task
\* whenever one is left.
C14_TwoPassesReclaimOldest ==
    EqualStoresOverQuota =>
        /\ (last.op = "TryGC" /\ Reclaimed = {}) =>
              /\ Cardinality(Marked) = ToReclaim
              /\ \A m \in Marked, u \in StoreIDs \ Marked :
                    stores[m].lastAccess <= stores[u].lastAccess
              /\ {KeyOf(stores[m]) : m \in Marked} =
                    {markedReclaimTasks[i] : i \in DOMAIN markedReclaimTasks}
              /\ Len(markedReclaimTasks) = ToReclaim
        /\ (last.op = "TryGC" /\ Reclaimed # {}) =>
              /\ Cardinality(Reclaimed) = ToReclaim
              /\ \A id \in StoreIDs :
                    (tasks[KeyOf(stores[id])] = id) <=> id \notin Reclaimed
        /\ last.op = "FindCompletedTask" =>
              /\ last.ret \notin Reclaimed
              /\ last.ret = 0 <=>
                    ~\E id \in StoreIDs \ Reclaimed : stores[id].TaskID = last.key.TaskID

\* C14, the part that holds: the same without the last conjunct, FindCompletedTask
\* only never returning a reclaimed store
C14_TwoPassesReclaimed ==
    EqualStoresOverQuota =>
        /\ (last.op = "TryGC" /\ Reclaimed = {}) =>
              /\ Cardinality(Marked) = ToReclaim
              /\ \A m \in Marked, u \in StoreIDs \ Marked :
                    stores[m].lastAccess <= stores[u].lastAccess
              /\ Len(markedReclaimTasks) = ToReclaim
        /\ (last.op = "TryGC" /\ Reclaimed # {}) =>
              /\ Cardinality(Reclaimed) = ToReclaim
              /\ \A id \in StoreIDs :
                    (tasks[KeyOf(stores[id])] = id) <=> id \notin Reclaimed
        /\ last.op = "FindCompletedTask" => last.ret \notin Reclaimed

\* C15: whatever the body and the piece size, with or without a Content-Length, and
\* with no request digest or the digest of the body, DownloadSource returns no error,
\* and after Store the output is the source's bytes in order.
C15_OutputEqualsSource ==
    src.digest \in {NoDigest, Md5Of(src.body)} =>
        /\ ds.pc = "done" => ds.err = ""
        /\ ds.pc = "stored" => ds.output = src.body

\* three bytes in pieces of two, no Content-Length, the request's digest checked
C15_Witness ==
    /\ ds.pc = "stored"
    /\ src.body = <<1, 0, 1>>
    /\ src.pieceSize = 2
    /\ ~src.withContentLength
    /\ src.digest = Md5Of(src.body)
    /\ ds.output = <<1, 0, 1>>
    /\ Len(ds.published) = 2

\* C16: with a Content-Length, TotalPieces is ceil(length / pieceSize) from the moment
\* the source is opened; without one it is -1 while pieces are read and the number of
\* pieces written after the last one; a TotalPieces that is not negative never changes.
C16_TotalPiecesFixed ==
    /\ [](ds.pc # "open" =>
            IF src.withContentLength
            THEN /\ ds.TotalPieces * src.pieceSize >= Len(src.body)
                 /\ (ds.TotalPieces - 1) * src.pieceSize < Len(src.body)
                 /\ ds.TotalPieces >= 0
            ELSE IF ds.pc = "read" THEN ds.TotalPieces = -1
            ELSE ds.TotalPieces = Len(ds.published))
    /\ [][ds.TotalPieces >= 0 => ds'.TotalPieces = ds.TotalPieces]_vars

\* no Content-Length, a body of three bytes in pieces of one: three pieces, then the
\* empty read that ends the body
C16_Witness ==
    /\ ds.pc = "done"
    /\ ~src.withContentLength
    /\ Len(src.body) = 3
    /\ src.pieceSize = 1
    /\ ds.TotalPieces = 3
    /\ ds.ContentLength = 3

\* the terminal states are absorbing, and each signals on its own channel only
Absorbing ==
    /\ pt.state = "Success" => pt'.state = "Success" /\ ~pt'.failCh
    /\ pt.state = "Failed" => pt'.state = "Failed" /\ ~pt'.successCh

\* C17 (as claimed): a conductor in Success stays there and never closes failCh, one
\* in Failed stays there and never closes successCh, and a file task whose
\* syncProgress has returned has observed one of the two outcomes, and one only.
C17_OneOutcome ==
    /\ [](\A i \in Subscribers : ft[i].pc = "returned" => Len(ft[i].observed) = 1)
    /\ [][Absorbing]_vars

\* C17, the part that holds: the terminal states are absorbing, successCh and failCh
\* are never both closed, and no file task observes more than one outcome
C17_AtMostOneOutcome ==
    /\ [](/\ ~(pt.successCh /\ pt.failCh)
          /\ \A i \in Subscribers : Len(ft[i].observed) <= 1)
    /\ [][Absorbing]_vars

Delivered(i) == ft[i].received \o broker.queues[i]
\* what was published after subscriber i subscribed
PublishedSince(i) == SubSeq(broker.events, broker.since[i] + 1, Len(broker.events))
Last(seq) == seq[Len(seq)]

\* C19: every subscriber is handed the events published after it subscribed, in the
\* order of publication; two subscribers are handed the same events from the later
\* subscription on; the finished sentinel of Close is the last event each is handed.
C19_PublicationOrder ==
    /\ \A i \in Subscribers : broker.subscribed[i] => Delivered(i) = PublishedSince(i)
    /\ \A i, j \in Subscribers :
          (broker.subscribed[i] /\ broker.subscribed[j] /\ broker.since[i] <= broker.since[j]) =>
              Delivered(j) = SubSeq(Delivered(i), broker.since[j] - broker.since[i] + 1,
                                    Len(Delivered(i)))
    /\ \A i \in Subscribers :
          /\ \A k \in DOMAIN Delivered(i) : Delivered(i)[k].finished => k = Len(Delivered(i))
          /\ (broker.closed /\ Delivered(i) # <<>>) => Last(Delivered(i)) = Sentinel

\* one subscriber from the start, one from the second piece on, both at the sentinel
C19_Witness ==
    /\ ft[1].received = <<PieceEvent(0), PieceEvent(1), Sentinel>>
    /\ ft[2].received = <<PieceEvent(1), Sentinel>>

WasReclaimed(key) ==
    \E id \in StoreIDs : KeyOf(stores[id]) = key /\ stores[id].reclaimed

\* C25: WritePiece, ReadPiece, ReadAllPieces, Store, GetPieces, UpdateTask,
\* ValidateDigest and IsInvalid called for a (TaskID, PeerID) that the task map does
\* not hold (never registered, or deleted by a GC pass) return ErrTaskNotFound and
\* leave the task map, the TaskID index and every store as they were.
C25_NotFoundNoStore ==
    [][(last'.op \in StoreCalls /\ tasks[last'.key] = 0)
         => /\ last'.ret = -1
            /\ UNCHANGED <<tasks, indexTask2PeerTask, stores>>]_vars

\* IsInvalid was called for a key whose store a GC pass had reclaimed: ErrTaskNotFound
C25_Witness ==
    /\ last.op = "IsInvalid"
    /\ last.ret = -1
    /\ WasReclaimed(last.key)
    /\ tasks[last.key] = 0


\* C26: a store marked for reclaim in one TryGC pass and accessed before the next
\* pass is not deleted by the next pass. With both thresholds off only the scan marks,
\* and it marks expired stores only: a store that a pass deletes while it is not
\* expired has been accessed since it was marked.
C26_GraceWindow ==
    gc.pc = "clean" => CanReclaim(stores[gc.cur])


\* the stores of the map that are not Done and were accessed less than gcInterval ago
ActiveNotDone ==
    {id \in StoreIDs : /\ tasks[KeyOf(stores[id])] = id
                       /\ ~stores[id].Done
                       /\ now - stores[id].lastAccess < gcInterval}

\* C27: the quota phase of a TryGC pass never marks a store that is not Done and was
\* accessed less than gcInterval ago, whatever its place in the order of last access.
C27_ActiveNotDoneNotMarked ==
    last.op = "TryGCMark" => QuotaMarked \cap ActiveNotDone = {}

\* The quota phase marked a store and left unmarked a store that is not Done, was
\* accessed within gcInterval and is no younger than any store the phase marked.
C27_Witness ==
    /\ last.op = "TryGCMark"
    /\ QuotaMarked # {}
    /\ \E u \in ActiveNotDone :
          /\ ~stores[u].reclaimMarked
          /\ \A m \in QuotaMarked : stores[u].lastAccess <= stores[m].lastAccess


\* C23: DownloadPiece takes the candidates in list order, one after the other; a
\* candidate that fails (stream error or md5 mismatch) is followed by the next one with
\* no error returned and no failure reported; md5-valid bytes from any candidate make
\* the call succeed; ErrAllCandidatesFailed is returned only at the failure of the last
\* candidate, every candidate before it having failed.
C23_CandidatesInOrder ==
    [][\A w \in Workers :
          LET a == workers[w]
              b == workers'[w]
          IN /\ (b.pc = "fetch" /\ b.candidate # a.candidate)
                    => b.candidate = a.candidate + 1
             /\ (a.pc \in {"fetch", "verify"} /\ b.pc = "fetch" /\ b.candidate # a.candidate)
                    => b.ret = "" /\ pieceResults' = pieceResults
             /\ (a.pc = "verify" /\ b # a /\ pieces[a.num].md5 = DigestMD5)
                    => b.pc = "publish" /\ PieceDone(a.num)'
             /\ (b.ret = "failed" /\ a.ret # "failed")
                    => a.candidate = MaxCandidates /\ a.pc \in {"fetch", "verify"}]_vars

\* The first candidate failed, the second delivered md5-valid bytes and the call
\* returned without an error, no failure having been reported for the piece.
C23_Witness ==
    \E w \in Workers :
        /\ workers[w].pc = "report"
        /\ workers[w].candidate = MaxCandidates
        /\ PieceDone(workers[w].num)
        /\ [PieceNum |-> workers[w].num, Success |-> FALSE] \notin pieceResults


\* request q is started as a prefetch by the step
PrefetchStarted(q) == requests[q].pc = "none" /\ requests'[q].pc = "prefetch"

\* C30: newFileTask starts a prefetch of the whole object exactly when prefetch is
\* enabled, the request has a Range and getPeerTaskConductor returned no error, and
\* nothing else starts one; the file task goes on without waiting for the prefetch,
\* and the end of the prefetch, failed or not, changes neither the file task's request
\* nor its conductor.
C30_PrefetchIff ==
    [][/\ \A r \in Requests :
             /\ (requests[r].pc = "none" /\ requests'[r].pc = "got"
                     /\ requests'[r].kind = "file")
                    => ((\E q \in Requests : PrefetchStarted(q) /\ requests'[q].parent = r)
                           <=> (enablePrefetch /\ requests'[r].taskID[2] # ""))
             /\ (requests[r].pc = "none" /\ requests'[r].pc = "error")
                    => ~\E q \in Requests : PrefetchStarted(q)
       /\ \A q \in Requests :
             PrefetchStarted(q)
                => LET r == requests'[q].parent
                   IN /\ requests[r].pc = "none"
                      /\ requests'[r].pc = "got"
                      /\ requests'[r].kind = "file"
                      /\ requests'[q].taskID = TaskID(requests'[r].taskID[1], "")
       /\ \A q \in Requests :
             (requests[q].pc = "prefetch" /\ requests'[q].pc # "prefetch")
                => LET r == requests[q].parent
                   IN /\ requests'[r] = requests[r]
                      /\ requests[r].ptc # 0
                      /\ conductors'[requests[r].ptc] = conductors[requests[r].ptc]]_vars

\* The file task has subscribed to its conductor and its prefetch has failed
C30_Witness ==
    \E q \in Requests :
        /\ requests[q].pc = "prefetchFailed"
        /\ requests[requests[q].parent].pc = "subscribed"
        /\ requests[requests[q].parent].kind = "file"
        /\ conductors[requests[requests[q].parent].ptc].state = "Running"


\* the terminal events among the progress events the consumer of file task i received
TerminalEvents(i) == SelectSeq(ft[i].progress, LAMBDA e : e.PeerTaskDone)

C22_CancelFinalEvent ==
    \A i \in Subscribers :
        (ft[i].pc = "returned" /\ ft[i].ctxDone)
            => /\ Len(TerminalEvents(i)) = 1
               /\ LET e == ft[i].progress[Len(ft[i].progress)]
                  IN /\ e.PeerTaskDone
                     /\ ~e.Success
                     /\ e.Code = "ClientContextCanceled"
                     /\ e.CompletedLength = pt.completedLength


\* the sum of the lengths of the pieces 0 .. n-1
RECURSIVE LengthOfPieces(_)
LengthOfPieces(n) == IF n = 0 THEN 0 ELSE LengthOfPieces(n - 1) + PieceLength(n - 1)

\* C24: the conductor's completedLength is the sum of the lengths of the pieces that
\* are done, and the CompletedLength of the successive progress events of a file task
\* never decreases and never exceeds the content length of the task, nor the
\* ContentLength of the event when that is known.
C24_CompletedLength ==
    /\ pt.completedLength = LengthOfPieces(pt.published)
    /\ \A i \in Subscribers :
          /\ \A k \in DOMAIN ft[i].progress :
                /\ ft[i].progress[k].CompletedLength <= TotalLength
                /\ ft[i].progress[k].ContentLength # UnknownLength
                      => ft[i].progress[k].CompletedLength <= ft[i].progress[k].ContentLength
                /\ k > 1 => ft[i].progress[k - 1].CompletedLength
                               <= ft[i].progress[k].CompletedLength
          /\ ft[i].pg.CompletedLength <= pt.completedLength

\* A consumer received the progress of the first piece, then of the second, then the
\* final event: the completed length grew from one piece to the whole content
C24_Witness ==
    \E i \in Subscribers :
        /\ Len(ft[i].progress) = 3
        /\ ft[i].progress[1].CompletedLength = PieceSize
        /\ ft[i].progress[2].CompletedLength = TotalLength
        /\ ft[i].progress[3].CompletedLength = TotalLength
        /\ ft[i].progress[3].PeerTaskDone


\* the events of a sequence that are not the finished sentinel, and the progress
\* events that are not terminal
PieceEvents(seq) == SelectSeq(seq, LAMBDA e : ~e.finished)
NonTerminal(seq) == SelectSeq(seq, LAMBDA e : ~e.PeerTaskDone)

\* C28: every non-terminal progress event of a file task has Success = true and
\* Code = Success and answers one broker piece event with finished = false: a step
\* that sends one is taken by a file task whose last received event is such a piece
\* event, there are never more of them than piece events received, and a step that
\* receives the finished sentinel sends nothing and builds no progress.
C28_ProgressPerPieceEvent ==
    /\ [](\A i \in Subscribers :
             /\ \A k \in DOMAIN ft[i].progress :
                   ~ft[i].progress[k].PeerTaskDone
                      => ft[i].progress[k].Success /\ ft[i].progress[k].Code = "Success"
             /\ Len(NonTerminal(ft[i].progress)) + (IF ft[i].pc = "send" THEN 1 ELSE 0)
                   <= Len(PieceEvents(ft[i].received)))
    /\ [][\A i \in Subscribers :
             /\ Len(NonTerminal(ft'[i].progress)) > Len(NonTerminal(ft[i].progress))
                   => /\ ft[i].pc = "send"
                      /\ ft[i].received # <<>>
                      /\ ~ft[i].received[Len(ft[i].received)].finished
                      /\ Len(ft'[i].progress) = Len(ft[i].progress) + 1
             /\ (Len(ft'[i].received) > Len(ft[i].received)
                    /\ ft'[i].received[Len(ft'[i].received)].finished)
                   => /\ ft'[i].progress = ft[i].progress
                      /\ ft'[i].pc = "select"
                      /\ ft'[i].pg = ft[i].pg]_vars

\* A file task received a piece event and the finished sentinel and then returned
\* after failCh: one non-terminal progress event, for the piece, and the terminal one
C28_Witness ==
    \E i \in Subscribers :
        /\ ft[i].pc = "returned"
        /\ ft[i].received = <<PieceEvent(0), Sentinel>>
        /\ Len(ft[i].progress) = 2
        /\ ~ft[i].progress[1].PeerTaskDone
        /\ ft[i].progress[2].PeerTaskDone


C31_ReclaimsOnlyMarked ==
    gc.pc \in {"clean", "files"} => stores[gc.cur].reclaimMarked


\* store id is the store of the task map under its key
InMap(id) == tasks[KeyOf(stores[id])] = id
Pending == {markedReclaimTasks[i] : i \in DOMAIN markedReclaimTasks}

\* C32: when a TryGC pass ends, every store that carried the reclaim mark before the
\* pass (so was marked by an earlier pass) is out of the task map and of the TaskID
\* index; and after a pass every store of the map that carries the mark has its key in
\* the pending list.
C32_MarkedGoneNextPass ==
    /\ [][last'.op = "TryGC" =>
             \A id \in StoreIDs :
                 (stores[id].reclaimMarked /\ id \notin gc.newly)
                    => /\ ~InMap(id)'
                       /\ Count(indexTask2PeerTask'[stores[id].TaskID], id) = 0]_vars
    /\ [](last.op = "TryGC" =>
             \A id \in StoreIDs :
                 (InMap(id) /\ stores[id].reclaimMarked) => KeyOf(stores[id]) \in Pending)

\* A pass has ended in which a store marked by the pass before was reclaimed while
\* another store, marked by this pass, is still in the map and pending
C32_Witness ==
    /\ last.op = "TryGC"
    /\ \E id \in StoreIDs : stores[id].reclaimed /\ ~InMap(id)
    /\ \E id \in StoreIDs : InMap(id) /\ stores[id].reclaimMarked
                               /\ KeyOf(stores[id]) \in Pending


\* C33: whenever no operation of the storage manager is in progress, a store is in
\* the task map under its key exactly when it is in indexTask2PeerTask of its TaskID,
\* and the index holds every store at most once and at most one store per (TaskID,
\* PeerID).
C33_MapMatchesIndex ==
    Quiescent =>
        /\ \A id \in StoreIDs :
              InMap(id) <=> Count(indexTask2PeerTask[stores[id].TaskID], id) > 0
        /\ \A key \in Keys : Cardinality(IndexEntries(key)) <= 1


\* C34: with TryGC and CleanUp running step by step beside it, FindCompletedTask
\* never returns a store that is no longer in the task map.
C34_FoundStoreInMap ==
    (last.op = "FindCompletedTask" /\ last.ret # 0) => InMap(last.ret)


\* C35: a file task sends at most one terminal progress event and nothing after it:
\* in every state a terminal event is the last event its consumer has received, and
\* every step only ever appends to what the consumer has received.
C35_TerminalIsLast ==
    /\ [](\A i \in Subscribers :
             /\ Len(TerminalEvents(i)) <= 1
             /\ \A k \in DOMAIN ft[i].progress :
                   ft[i].progress[k].PeerTaskDone => k = Len(ft[i].progress))
    /\ [][\A i \in Subscribers :
             /\ Len(ft'[i].progress) >= Len(ft[i].progress)
             /\ SubSeq(ft'[i].progress, 1, Len(ft[i].progress)) = ft[i].progress
             /\ Len(TerminalEvents(i)) = 1 => ft'[i].progress = ft[i].progress]_vars

\* The caller cancelled the context, and the consumer still received the progress of a
\* piece and then the terminal event of the conductor's failure, after which the file
\* task returned
C35_Witness ==
    \E i \in Subscribers :
        /\ ft[i].pc = "returned"
        /\ ft[i].ctxDone
        /\ Len(ft[i].progress) = 2
        /\ ~ft[i].progress[1].PeerTaskDone
        /\ ft[i].progress[2].PeerTaskDone
        /\ broker.closed

\* C36: once the conductor has reached Success or Failed, a file task whose
\* syncProgress is running (in its loop, sending a progress, or waiting for the stop
\* signal) eventually leaves syncProgress, given a consumer that receives and calls
\* DoneCallback or a cancelled context: it blocks on no send and on no wait forever.
C36_SyncProgressTerminates ==
    \A i \in Subscribers :
        (Terminal(pt) /\ ft[i].pc \in {"select", "send", "stop"})
            ~> (ft[i].pc \in {"returned", "panic"})

C36_Witness ==
    /\ Terminal(pt)
    /\ \E i \in Subscribers :
          /\ ft[i].pc = "returned"
          /\ ~ft[i].ctxDone
          /\ Len(TerminalEvents(i)) = 1
    /\ \E i \in Subscribers : ft[i].pc = "returned" /\ ft[i].ctxDone /\ ft[i].progress = <<>>

\* C37: closing the broker makes no file task fail: no receive from the piece
\* channel of a closed broker ends syncProgress with an error, so a file task that
\* has left syncProgress with its context live has the conductor's terminal event.
C37_CloseNeverFails ==
    \A i \in Subscribers :
        /\ ft[i].pc # "panic"
        /\ (ft[i].pc = "returned" /\ ~ft[i].ctxDone) => Len(TerminalEvents(i)) = 1

\* C38: a call of FindCompletedTask changes nothing but the last access of the
\* store it returns: every other store, the skipped ones included, keeps its last
\* access, the task map, the index and the marks are as they were, and a call that
\* returns nil changes nothing.
C38_FindTouchesOnlyReturned ==
    [][(\E taskID \in TaskIDs : FindCompletedTask(taskID)) =>
          /\ \A id \in StoreIDs : id # last'.ret => stores'[id] = stores[id]
          /\ last'.ret # 0 =>
                stores'[last'.ret] = [stores[last'.ret] EXCEPT !.lastAccess = now]
          /\ UNCHANGED <<tasks, indexTask2PeerTask, markedReclaimTasks>>]_vars

\* C39: with DiskGCThreshold = 0, a pass of TryGC whose quota phase runs (on the
\* disk usage alone, the byte quota being off) sets out to reclaim the bytes by which
\* the disk usage exceeds its threshold, whatever the stores in the map add up to.
C39_UsageExcessOnly ==
    (last.op = "TryGCMark" /\ DiskGCThreshold = 0 /\ last.ret # -1)
        => last.ret = diskUsageExceed(last.used).bytes

====
